---- MODULE Spec2Model ----
(***************************************************************************)
(* A model of src/src/main.cu: the CUDA forward pass of a fixed            *)
(* two-convolution network (first half of the file) and the sequential     *)
(* reference implementation (second half of the file).                     *)
(*                                                                         *)
(* Buffers are flat arrays, modelled as functions on 0..len-1 and          *)
(* addressed with the offset arithmetic of the source.  float values are   *)
(* modelled by integers: every input is a small integer and every quotient *)
(* taken by the pooling operator is exact, so that no IEEE-754 rounding    *)
(* occurs and integer arithmetic computes what the program computes.       *)
(***************************************************************************)
EXTENDS Integers, Sequences, FiniteSets, TLC

VARIABLES
  pc,                 \* position of the host thread (convLayer_forward, forward_operation, main)
  args,               \* convLayer_forward's scalar arguments [N, M, C, H, W, K]
  inX, inMask,        \* convLayer_forward's X and Mask (host, read-only)
  outY,               \* convLayer_forward's Y (host, malloc'ed by the caller)
  X_unrolled,         \* host transient buffer of convLayer_forward
  device_W, device_W_unrolled, device_X_unrolled, device_Y_unrolled, device_Y,
  n,                  \* the sample loop variable of convLayer_forward
  blocks,             \* the thread blocks of the matrixMultiplyShared launch in flight
  garbage,            \* what uninitialised __shared__ memory happens to hold
  warps,              \* per block: the position of each warp, when warps are stepped one by one
  stores,             \* per element of device_Y_unrolled: the stores matrixMultiplyShared made to it
  Y_direct,           \* output of conv_forward_valid on the same operands
  xdims,              \* the global xdims
  adims, bdims,       \* forward_operation: shapes of conv1's and pool1's outputs
  conv1Output,        \* forward_operation: host output of conv1
  host_b,             \* forward_operation: b, the host output of pool1
  deviceInputPool1, deviceOutputPool1, deviceIndims, deviceOutdims,
  poolBlocks,         \* blocks of the average_pool_kernel launch still to run
  pool_ref,           \* output of the sequential average_pool on the same input
  fcX, fcW1, fcW2, fcDims, \* operands of the fully_forward runs
  fcOut,              \* their outputs, by definition and weight matrix
  FLAGS_batch_size, rdims, conv1dims, conv2dims, fc1dims, fc2dims,   \* globals
  testdata,           \* the test-data file: [dims0, x, y], dims0 the batch extent of /x
  modelfile,          \* the model file: [conv1, conv2, fc1, fc2]
  loadData_ret,       \* what loadData returned
  data_read,          \* whether loadData read the datasets into x and y
  host_x, host_y,     \* main: x and y
  conv1, conv2, fc1, fc2,  \* main: the model weights
  cdims, ddims, ddims2, edims, fdims,    \* forward_operation: shapes
  conv2Output, pool2Output, host_e, host_f,  \* forward_operation: host tensors
  deviceInputPool2, deviceOutputPool2,       \* forward_operation: device tensors of pool2
  out, ref, num_correct,   \* main: predictions, reference labels, matches
  trace,              \* the stages forward_operation has run, with the buffers each read and wrote
  out_ref,            \* the labels of the sequential reference forward_operation
  heap                \* per buffer of the forward pass: its allocation state and its allocator

convVars == <<args, inX, inMask, outY, X_unrolled, device_W, device_W_unrolled,
              device_X_unrolled, device_Y_unrolled, device_Y, n, blocks, garbage, warps, stores,
              Y_direct>>

poolVars == <<xdims, adims, bdims, conv1Output, host_b, deviceInputPool1,
              deviceOutputPool1, deviceIndims, deviceOutdims, poolBlocks, pool_ref>>

fcVars == <<fcX, fcW1, fcW2, fcDims, fcOut>>

flagVars == <<FLAGS_batch_size, rdims, conv1dims, conv2dims, fc1dims, fc2dims,
              testdata, modelfile>>

\* the process-wide state: the globals and the heap
globalVars == <<flagVars, heap>>

hostVars == <<loadData_ret, data_read, host_x, host_y, conv1, conv2, fc1, fc2>>

shapeVars == <<cdims, ddims, ddims2, edims, fdims>>

tensorVars == <<conv2Output, pool2Output, deviceInputPool2, deviceOutputPool2, host_e, host_f>>

resultVars == <<out, ref, num_correct, out_ref>>

mainVars == <<globalVars, hostVars, shapeVars, tensorVars, resultVars, trace>>

mainButHeap == <<flagVars, hostVars, shapeVars, tensorVars, resultVars, trace>>

vars == <<pc, convVars, poolVars, fcVars, mainVars>>

(***************************************************************************)
(* Program constants.                                                      *)
(***************************************************************************)
TILE_WIDTH == 16

pool_size == 2

(***************************************************************************)
(* Bounds of the model.                                                    *)
(***************************************************************************)
MaxSeed == 1

Seeds == 0..MaxSeed

(***************************************************************************)
(* Memory.  malloc / cudaMalloc / new[] return memory that was never       *)
(* written: such a cell holds Poison until the program stores to it.       *)
(* A released buffer is Freed.                                             *)
(***************************************************************************)
Poison == 0 - 1000000

Freed == <<>>

Alloc(len) == [i \in 0..(len - 1) |-> Poison]

Zeros(len) == [i \in 0..(len - 1) |-> 0]

\* The stores ws[lo..hi], performed in that order on buf.  A store is a record
\* [ok, at, val]: the guard the code puts before the store, the offset, the value.
RECURSIVE ApplyWrites(_, _, _, _)
ApplyWrites(buf, ws, lo, hi) ==
  IF lo > hi \/ DOMAIN buf = {} THEN buf
  ELSE IF lo = hi
       THEN LET w == ws[lo] IN IF w.ok THEN [buf EXCEPT ![w.at] = w.val] ELSE buf
       ELSE LET mid == (lo + hi) \div 2
            IN ApplyWrites(ApplyWrites(buf, ws, lo, mid), ws, mid + 1, hi)

\* cudaMemcpy / memcpy of len elements from src to dst.
Memcpy(dst, src, len) == [i \in DOMAIN dst |-> IF i < len THEN src[i] ELSE dst[i]]

\* (v < 0.0f) ? 0.0f : v
Clamp(v) == IF v < 0 THEN 0 ELSE v

\* ceil((1.0 * a) / b) for positive a, b
Ceil(a, b) == (a + b - 1) \div b

(***************************************************************************)
(* The heap.  A buffer is named by the pointer variable of the source that *)
(* holds it; heap[b] records whether it is allocated and by which          *)
(* allocator.  Releasing a buffer with a deallocator that does not belong  *)
(* to its allocator is undefined behaviour: the buffer may end up released *)
(* or in an undefined state.                                               *)
(***************************************************************************)
ConvLayerBuffers ==
  {"X_unrolled", "device_W_unrolled", "device_W", "device_X_unrolled", "device_Y_unrolled",
   "device_Y"}

ForwardBuffers ==
  {"a", "conv1Output", "b", "c", "conv2Output", "d", "pool2Output", "e", "f",
   "deviceIndims", "deviceMaskdims", "deviceOutdims",
   "deviceInputPool1", "deviceOutputPool1", "deviceInputPool2", "deviceOutputPool2"}

EmptyHeap == [b \in ConvLayerBuffers \cup ForwardBuffers |-> [state |-> "none", by |-> "none"]]

\* zeros<T> of utils.hpp returns memory that its callers release with delete[]
ZerosDeallocator == "delete[]"

Deallocator(by) ==
  CASE by = "malloc" -> "free"
    [] by = "cudaMalloc" -> "cudaFree"
    [] by = "zeros" -> ZerosDeallocator

\* the pointer variable b is assigned a fresh allocation
Acquire(h, b, by) ==
  [h EXCEPT ![b] = [state |-> IF @.state = "live" THEN "leaked" ELSE "live", by |-> by]]

RECURSIVE AcquireAll(_, _)
AcquireAll(h, list) ==
  IF list = <<>> THEN h ELSE AcquireAll(Acquire(h, Head(list)[1], Head(list)[2]), Tail(list))

\* the heaps that releasing buffer b with the deallocator dealloc can leave
ReleaseOutcomes(h, b, dealloc) ==
  IF h[b].state # "live" THEN {[h EXCEPT ![b].state = "released twice"]}
  ELSE IF Deallocator(h[b].by) = dealloc THEN {[h EXCEPT ![b].state = "released"]}
  ELSE {[h EXCEPT ![b].state = "released"], [h EXCEPT ![b].state = "undefined"]}

RECURSIVE ReleaseAll(_, _)
ReleaseAll(hs, list) ==
  IF list = <<>> THEN hs
  ELSE ReleaseAll(UNION {ReleaseOutcomes(h, Head(list)[1], Head(list)[2]) : h \in hs},
                  Tail(list))

(***************************************************************************)
(* unrollFilters<<<C, M>>>: thread m of block c copies the K x K filter     *)
(* taps of (c, m).                                                         *)
(***************************************************************************)
unrollFiltersWrites(C, M, K, W) ==
  [i \in 1..(C * M * K * K) |->
     LET c == (i - 1) \div (M * K * K)
         m == ((i - 1) \div (K * K)) % M
         p == ((i - 1) \div K) % K
         q == (i - 1) % K
     IN [ok  |-> c < C /\ m < M,
         at  |-> m*C*K*K + c*K*K + p*K + q,
         val |-> W[p*K*C*M + q*C*M + c*M + m]]]

unrollFilters(C, M, K, W, W_unroll) ==
  ApplyWrites(W_unroll, unrollFiltersWrites(C, M, K, W), 1, C * M * K * K)

(***************************************************************************)
(* rerollOutput<<<N, M>>>: thread m of block n0 copies the H_out x W_out    *)
(* map of (n0, m).                                                         *)
(***************************************************************************)
\* mutant: the unrolled output read with h and w exchanged
rerollOutputWrites_Transposed(M, N, H_out, W_out, Y_unrolled) ==
  [i \in 1..(N * M * H_out * W_out) |->
     LET n0 == (i - 1) \div (M * H_out * W_out)
         m  == ((i - 1) \div (H_out * W_out)) % M
         h  == ((i - 1) \div W_out) % H_out
         w  == (i - 1) % W_out
     IN [ok  |-> m < M /\ n0 < N,
         at  |-> ((n0 * H_out + h) * W_out + w) * M + m,
         val |-> Y_unrolled[n0*M*H_out*W_out + m*H_out*W_out + ((w*H_out + h) % (H_out*W_out))]]]

rerollOutputWrites(M, N, H_out, W_out, Y_unrolled) ==
  [i \in 1..(N * M * H_out * W_out) |->
     LET n0 == (i - 1) \div (M * H_out * W_out)
         m  == ((i - 1) \div (H_out * W_out)) % M
         h  == ((i - 1) \div W_out) % H_out
         w  == (i - 1) % W_out
     IN [ok  |-> m < M /\ n0 < N,
         at  |-> ((n0 * H_out + h) * W_out + w) * M + m,
         val |-> Y_unrolled[n0*M*H_out*W_out + m*H_out*W_out + h*W_out + w]]]

rerollOutput(M, N, H_out, W_out, Y_unrolled, Y) ==
  ApplyWrites(Y, rerollOutputWrites(M, N, H_out, W_out, Y_unrolled),
              1, N * M * H_out * W_out)

(***************************************************************************)
(* unroll: the sequential input unroll of sample n0.  Iteration i of the   *)
(* loop nest c, p, q, h, w performs one store.                             *)
(***************************************************************************)
\* mutant: the filter offsets p and q exchanged in x_index
unrollWrites_SwappedTaps(C, H, W, K, n0, X) ==
  LET H_out == H - K + 1
      W_out == W - K + 1
      H_unroll == H_out * W_out
  IN [i \in 1..(C * K * K * H_unroll) |->
        LET c == (i - 1) \div (K * K * H_unroll)
            p == ((i - 1) \div (K * H_unroll)) % K
            q == ((i - 1) \div H_unroll) % K
            h == ((i - 1) \div W_out) % H_out
            w == (i - 1) % W_out
            w_unroll == c * (K * K) + p * K + q
            h_unroll == h * W_out + w
            x_index == n0*H*W*C + (h + q)*W*C + (w + p)*C + c
        IN [ok |-> TRUE, at |-> w_unroll*H_unroll + h_unroll, val |-> X[x_index]]]

unrollWrites(C, H, W, K, n0, X) ==
  LET H_out == H - K + 1
      W_out == W - K + 1
      H_unroll == H_out * W_out
  IN [i \in 1..(C * K * K * H_unroll) |->
        LET c == (i - 1) \div (K * K * H_unroll)
            p == ((i - 1) \div (K * H_unroll)) % K
            q == ((i - 1) \div H_unroll) % K
            h == ((i - 1) \div W_out) % H_out
            w == (i - 1) % W_out
            w_base == c * (K * K)
            w_unroll == w_base + p * K + q
            h_unroll == h * W_out + w
            x_index == n0*H*W*C + (h + p)*W*C + (w + q)*C + c
        IN [ok |-> TRUE, at |-> w_unroll*H_unroll + h_unroll, val |-> X[x_index]]]

unroll(C, H, W, K, n0, X, X_unroll) ==
  ApplyWrites(X_unroll, unrollWrites(C, H, W, K, n0, X),
              1, C * K * K * (H - K + 1) * (W - K + 1))

(***************************************************************************)
(* matrixMultiplyShared, one thread block (bx, by) of TILE_WIDTH x         *)
(* TILE_WIDTH threads.  The two __syncthreads() of a phase split it into   *)
(* the loads (every thread stores its own slot of Ads and of Bds) and the  *)
(* dot-product loop (every thread adds to its own Cval).                   *)
(***************************************************************************)
Tile == 0..(TILE_WIDTH - 1)

\* phase < (numAColumns-1)/TILE_WIDTH + 1
NumPhases(numAColumns) == (numAColumns - 1) \div TILE_WIDTH + 1

\* line 138: if((CRow < numCRows) && ((threadIdx.x + phase*TILE_WIDTH) < numAColumns))
LoadsAds(ty, tx, by, phase, numAColumns, numCRows) ==
  (by * TILE_WIDTH + ty < numCRows) /\ ((tx + phase*TILE_WIDTH) < numAColumns)

\* line 146: if((CCol < numCColumns) && ((threadIdx.y + phase*TILE_WIDTH) < numBRows))
LoadsBds(ty, tx, bx, phase, numBRows, numCColumns) ==
  (bx * TILE_WIDTH + tx < numCColumns) /\ ((ty + phase*TILE_WIDTH) < numBRows)

LoadAds(Ads, A, by, phase, numAColumns, numCRows) ==
  [ty \in Tile |-> [tx \in Tile |->
     LET CRow == by * TILE_WIDTH + ty
     IN IF LoadsAds(ty, tx, by, phase, numAColumns, numCRows)
        THEN A[CRow*numAColumns + tx + phase*TILE_WIDTH]
        ELSE Ads[ty][tx]]]

LoadBds(Bds, B, bx, phase, numBRows, numBColumns, numCColumns) ==
  [ty \in Tile |-> [tx \in Tile |->
     LET CCol == bx * TILE_WIDTH + tx
     IN IF LoadsBds(ty, tx, bx, phase, numBRows, numCColumns)
        THEN B[(ty + phase*TILE_WIDTH)*numBColumns + CCol]
        ELSE Bds[ty][tx]]]

\* The phase in which each slot of Ads / Bds was last stored to (NeverLoaded
\* for a slot no thread has stored to since the block started).
NeverLoaded == 0 - 1

StampAds(AdsAt, by, phase, numAColumns, numCRows) ==
  [ty \in Tile |-> [tx \in Tile |->
     IF LoadsAds(ty, tx, by, phase, numAColumns, numCRows) THEN phase ELSE AdsAt[ty][tx]]]

StampBds(BdsAt, bx, phase, numBRows, numCColumns) ==
  [ty \in Tile |-> [tx \in Tile |->
     IF LoadsBds(ty, tx, bx, phase, numBRows, numCColumns) THEN phase ELSE BdsAt[ty][tx]]]

\* mutant: the accumulation without its range check
DotInRange_Unchecked(dot, phase, numAColumns, numBRows) == TRUE

\* The guard of the accumulation at line 158.
DotInRange(dot, phase, numAColumns, numBRows) ==
  ((dot + phase*TILE_WIDTH) < numAColumns) /\ ((dot + phase*TILE_WIDTH) < numBRows)

\* for(dot = 0; dot < TILE_WIDTH; dot++) ... Cval += Ads[ty][dot]*Bds[dot][tx]
RECURSIVE DotLoop(_, _, _, _, _, _, _, _, _)
DotLoop(Cval, dot, Ads, Bds, ty, tx, phase, numAColumns, numBRows) ==
  IF dot = TILE_WIDTH THEN Cval
  ELSE DotLoop(IF DotInRange(dot, phase, numAColumns, numBRows)
               THEN Cval + Ads[ty][dot] * Bds[dot][tx]
               ELSE Cval,
               dot + 1, Ads, Bds, ty, tx, phase, numAColumns, numBRows)

Accumulate(Cval, Ads, Bds, phase, numAColumns, numBRows) ==
  [ty \in Tile |-> [tx \in Tile |->
     DotLoop(Cval[ty][tx], 0, Ads, Bds, ty, tx, phase, numAColumns, numBRows)]]

\* mutant: the column of the stored element does not depend on the block
StoreCWrites_SameColumns(Cval, bx, by, Cbase, numCRows, numCColumns) ==
  [i \in 1..(TILE_WIDTH * TILE_WIDTH) |->
     LET ty == (i - 1) \div TILE_WIDTH
         tx == (i - 1) % TILE_WIDTH
         CRow == by * TILE_WIDTH + ty
     IN [ok  |-> (CRow < numCRows) /\ (tx < numCColumns),
         at  |-> Cbase + CRow*numCColumns + tx,
         val |-> Clamp(Cval[ty][tx])]]

\* The guarded store of line 168-171 by the threads of block (bx, by); Cbase is
\* the offset of the kernel's C inside the buffer it points into.
StoreCWrites(Cval, bx, by, Cbase, numCRows, numCColumns) ==
  [i \in 1..(TILE_WIDTH * TILE_WIDTH) |->
     LET ty == (i - 1) \div TILE_WIDTH
         tx == (i - 1) % TILE_WIDTH
         CRow == by * TILE_WIDTH + ty
         CCol == bx * TILE_WIDTH + tx
     IN [ok  |-> (CRow < numCRows) /\ (CCol < numCColumns),
         at  |-> Cbase + CRow*numCColumns + CCol,
         val |-> Clamp(Cval[ty][tx])]]

StoreC(Cbuf, Cval, bx, by, Cbase, numCRows, numCColumns) ==
  ApplyWrites(Cbuf, StoreCWrites(Cval, bx, by, Cbase, numCRows, numCColumns),
              1, TILE_WIDTH * TILE_WIDTH)

\* The stores ws counted per element: how often each cell of C has been stored to.
CountStores(cnt, ws) ==
  [i \in DOMAIN cnt |-> cnt[i] + Cardinality({k \in DOMAIN ws : ws[k].ok /\ ws[k].at = i})]

\* lines 138-152: the loads of one phase by every thread of block (bx, by)
BlockLoad(blk, bx, by, A, B, L) ==
  [blk EXCEPT !.Ads = LoadAds(@, A, by, blk.phase, L.numAColumns, L.numCRows),
              !.Bds = LoadBds(@, B, bx, blk.phase, L.numBRows, L.numBColumns, L.numCColumns),
              !.AdsAt = StampAds(@, by, blk.phase, L.numAColumns, L.numCRows),
              !.BdsAt = StampBds(@, bx, blk.phase, L.numBRows, L.numCColumns),
              !.bpc = "compute"]

\* lines 154-163 and the loop test of line 135
BlockCompute(blk, L) ==
  [blk EXCEPT !.Cval = Accumulate(@, blk.Ads, blk.Bds, blk.phase, L.numAColumns, L.numBRows),
              !.phase = @ + 1,
              !.bpc = IF blk.phase + 1 < NumPhases(L.numAColumns) THEN "load" ELSE "store"]

\* A block as it starts: phase 0, Cval = 0.0f, shared memory never written.
SharedGarbage(g) == [ty \in Tile |-> [tx \in Tile |-> g * (1 + ((ty + 2*tx) % 3))]]

NewBlock(g) ==
  [bpc |-> "load", phase |-> 0, Ads |-> SharedGarbage(g), Bds |-> SharedGarbage(0 - g),
   AdsAt |-> [ty \in Tile |-> [tx \in Tile |-> NeverLoaded]],
   BdsAt |-> [ty \in Tile |-> [tx \in Tile |-> NeverLoaded]],
   Cval |-> [ty \in Tile |-> [tx \in Tile |-> 0]]]

(***************************************************************************)
(* conv_forward_valid (sequential reference): Y[yoffset] += X * W over the *)
(* loop nest i, m, w, h, p, q, c.                                          *)
(***************************************************************************)
Dims4(d0, d1, d2, d3) == [i \in 0..3 |-> CASE i = 0 -> d0 [] i = 1 -> d1 [] i = 2 -> d2 [] OTHER -> d3]

Dims2(d0, d1) == [i \in 0..1 |-> IF i = 0 THEN d0 ELSE d1]

\* f[lo] + ... + f[hi]
RECURSIVE SumFn(_, _, _)
SumFn(f, lo, hi) ==
  IF lo > hi THEN 0
  ELSE IF lo = hi THEN f[lo]
  ELSE LET mid == (lo + hi) \div 2 IN SumFn(f, lo, mid) + SumFn(f, mid + 1, hi)

conv_forward_validWrites(X, xd, W, wd, Y, yd) ==
  LET filter_h   == wd[0]
      filter_w   == wd[1]
      in_channel == wd[2]
  IN [k \in 1..(yd[0] * yd[3] * yd[2] * yd[1]) |->
        LET i == (k - 1) \div (yd[3] * yd[2] * yd[1])
            m == ((k - 1) \div (yd[2] * yd[1])) % yd[3]
            w == ((k - 1) \div yd[1]) % yd[2]
            h == (k - 1) % yd[1]
            yoffset == ((i * yd[1] + h) * yd[2] + w) * yd[3] + m
            term == [j \in 0..(filter_h * filter_w * in_channel - 1) |->
                       LET p == j \div (filter_w * in_channel)
                           q == (j \div in_channel) % filter_w
                           c == j % in_channel
                           xoffset == i * xd[1] * xd[2] * xd[3]
                                      + (h + p) * xd[2] * xd[3]
                                      + (w + q) * xd[3] + c
                           woffset == p * wd[1] * wd[2] * wd[3]
                                      + q * wd[2] * wd[3] + c * wd[3] + m
                       IN X[xoffset] * W[woffset]]
        IN [ok |-> TRUE, at |-> yoffset,
            val |-> Y[yoffset] + SumFn(term, 0, filter_h * filter_w * in_channel - 1)]]

conv_forward_valid(X, xd, W, wd, Y, yd) ==
  ApplyWrites(Y, conv_forward_validWrites(X, xd, W, wd, Y, yd),
              1, yd[0] * yd[3] * yd[2] * yd[1])

\* relu4 / relu2: X[i] = (X[i] < 0) ? 0 : X[i] for i < len
relu(X, len) == [i \in DOMAIN X |-> IF i < len THEN (IF X[i] < 0 THEN 0 ELSE X[i]) ELSE X[i]]

relu4(X, xd) == relu(X, xd[0] * xd[1] * xd[2] * xd[3])

relu2(X, xd) == relu(X, xd[0] * xd[1])

(***************************************************************************)
(* convLayer_forward, the host function, step by step.                     *)
(***************************************************************************)
W_out == args.W - args.K + 1
H_out == args.H - args.K + 1
W_unroll == args.C * args.K * args.K
H_unroll == H_out * W_out
FilterLen == args.M * args.C * args.K * args.K
OutLen == args.M * args.N * W_out * H_out

\* gridDimension2 and the arguments of the launch at line 282.
GridX == Ceil(H_unroll, TILE_WIDTH)
GridY == Ceil(args.M, TILE_WIDTH)
Grid == (0..(GridX - 1)) \X (0..(GridY - 1))

Launch ==
  [numARows |-> args.M, numAColumns |-> args.C * args.K * args.K,
   numBRows |-> W_unroll, numBColumns |-> H_unroll,
   numCRows |-> args.M, numCColumns |-> H_unroll,
   Cbase |-> n * args.ydims[1] * args.ydims[2] * args.ydims[3]]

\* the allocations of convLayer_forward (lines 252, 256, 257, 268, 269, 290)
ConvLayerAllocs ==
  << <<"X_unrolled", "malloc">>, <<"device_W_unrolled", "cudaMalloc">>,
     <<"device_W", "cudaMalloc">>, <<"device_X_unrolled", "cudaMalloc">>,
     <<"device_Y_unrolled", "cudaMalloc">>, <<"device_Y", "cudaMalloc">> >>

\* the releases of convLayer_forward (lines 301-306)
ConvLayerFrees ==
  << <<"X_unrolled", "free">>, <<"device_X_unrolled", "cudaFree">>,
     <<"device_W_unrolled", "cudaFree">>, <<"device_Y_unrolled", "cudaFree">>,
     <<"device_W", "cudaFree">>, <<"device_Y", "cudaFree">> >>

\* lines 252-257
CL_Entry ==
  /\ pc = "cl_entry"
  /\ X_unrolled' = Alloc(W_unroll * H_unroll)
  /\ device_W_unrolled' = Alloc(FilterLen)
  /\ device_W' = Alloc(FilterLen)
  /\ heap' = AcquireAll(heap, <<ConvLayerAllocs[1], ConvLayerAllocs[2], ConvLayerAllocs[3]>>)
  /\ pc' = "cl_filters"
  /\ UNCHANGED <<poolVars, fcVars, mainButHeap>>
  /\ UNCHANGED <<args, inX, inMask, outY, device_X_unrolled, device_Y_unrolled,
                 device_Y, n, blocks, garbage, warps, stores, Y_direct>>

\* lines 262-265: copy the filter, run unrollFilters to completion
CL_UnrollFilters ==
  /\ pc = "cl_filters"
  /\ device_W' = Memcpy(device_W, inMask, FilterLen)
  /\ device_W_unrolled' = unrollFilters(args.C, args.M, args.K, device_W', device_W_unrolled)
  /\ pc' = "cl_alloc"
  /\ UNCHANGED <<poolVars, fcVars, mainVars>>
  /\ UNCHANGED <<args, inX, inMask, outY, X_unrolled, device_X_unrolled,
                 device_Y_unrolled, device_Y, n, blocks, garbage, warps, stores, Y_direct>>

\* lines 268-275
CL_Alloc ==
  /\ pc = "cl_alloc"
  /\ device_X_unrolled' = Alloc(W_unroll * H_unroll)
  /\ device_Y_unrolled' = Alloc(OutLen)
  /\ stores' = Zeros(OutLen)
  /\ heap' = AcquireAll(heap, <<ConvLayerAllocs[4], ConvLayerAllocs[5]>>)
  /\ n' = 0
  /\ pc' = "cl_loop"
  /\ UNCHANGED <<poolVars, fcVars, mainButHeap>>
  /\ UNCHANGED <<args, inX, inMask, outY, X_unrolled, device_W, device_W_unrolled,
                 device_Y, blocks, garbage, warps, Y_direct>>

\* line 277
CL_Unroll ==
  /\ pc = "cl_loop"
  /\ n < args.N
  /\ X_unrolled' = unroll(args.C, args.H, args.W, args.K, n, inX, X_unrolled)
  /\ pc' = "cl_memcpy"
  /\ UNCHANGED <<poolVars, fcVars, mainVars>>
  /\ UNCHANGED <<args, inX, inMask, outY, device_W, device_W_unrolled,
                 device_X_unrolled, device_Y_unrolled, device_Y, n, blocks, garbage, warps, stores,
                 Y_direct>>

\* line 280
CL_MemcpyX ==
  /\ pc = "cl_memcpy"
  /\ device_X_unrolled' = Memcpy(device_X_unrolled, X_unrolled, W_unroll * H_unroll)
  /\ pc' = "cl_launch"
  /\ UNCHANGED <<poolVars, fcVars, mainVars>>
  /\ UNCHANGED <<args, inX, inMask, outY, X_unrolled, device_W, device_W_unrolled,
                 device_Y_unrolled, device_Y, n, blocks, garbage, warps, stores, Y_direct>>

\* line 282: the launch creates the blocks of the grid
CL_Launch ==
  /\ pc = "cl_launch"
  /\ blocks' = [b \in Grid |-> NewBlock(garbage)]
  /\ pc' = "cl_sync"
  /\ UNCHANGED <<poolVars, fcVars, mainVars>>
  /\ UNCHANGED <<args, inX, inMask, outY, X_unrolled, device_W, device_W_unrolled,
                 device_X_unrolled, device_Y_unrolled, device_Y, n, garbage, warps, stores, Y_direct>>

\* lines 138-152 of block b: the loads of one phase, up to the first barrier
MM_Load(b) ==
  /\ pc = "cl_sync"
  /\ blocks[b].bpc = "load"
  /\ blocks' = [blocks EXCEPT ![b] =
                   BlockLoad(@, b[1], b[2], device_W_unrolled, device_X_unrolled, Launch)]
  /\ UNCHANGED <<poolVars, fcVars, mainVars>>
  /\ UNCHANGED <<pc, args, inX, inMask, outY, X_unrolled, device_W, device_W_unrolled,
                 device_X_unrolled, device_Y_unrolled, device_Y, n, garbage, warps, stores, Y_direct>>

\* lines 154-163 of block b: the dot-product loop, the second barrier, phase++
MM_Compute(b) ==
  /\ pc = "cl_sync"
  /\ blocks[b].bpc = "compute"
  /\ blocks' = [blocks EXCEPT ![b] = BlockCompute(@, Launch)]
  /\ UNCHANGED <<poolVars, fcVars, mainVars>>
  /\ UNCHANGED <<pc, args, inX, inMask, outY, X_unrolled, device_W, device_W_unrolled,
                 device_X_unrolled, device_Y_unrolled, device_Y, n, garbage, warps, stores, Y_direct>>

\* lines 168-171 of block b
MM_Store(b) ==
  /\ pc = "cl_sync"
  /\ blocks[b].bpc = "store"
  /\ device_Y_unrolled' = StoreC(device_Y_unrolled, blocks[b].Cval, b[1], b[2],
                                 Launch.Cbase, Launch.numCRows, Launch.numCColumns)
  /\ stores' = CountStores(stores, StoreCWrites(blocks[b].Cval, b[1], b[2], Launch.Cbase,
                                                Launch.numCRows, Launch.numCColumns))
  /\ blocks' = [blocks EXCEPT ![b].bpc = "done"]
  /\ UNCHANGED <<poolVars, fcVars, mainVars>>
  /\ UNCHANGED <<pc, args, inX, inMask, outY, X_unrolled, device_W, device_W_unrolled,
                 device_X_unrolled, device_Y, n, garbage, warps, Y_direct>>

\* mutant: the host does not wait for the kernel
CL_Sync_NoWait ==
  /\ pc = "cl_sync"
  /\ n' = n + 1
  /\ blocks' = blocks
  /\ pc' = "cl_loop"
  /\ UNCHANGED <<poolVars, fcVars, mainVars>>
  /\ UNCHANGED <<args, inX, inMask, outY, X_unrolled, device_W, device_W_unrolled,
                 device_X_unrolled, device_Y_unrolled, device_Y, garbage, warps, stores, Y_direct>>

\* line 285: cudaDeviceSynchronize returns when every block has finished
CL_Sync ==
  /\ pc = "cl_sync"
  /\ \A b \in DOMAIN blocks : blocks[b].bpc = "done"
  /\ n' = n + 1
  /\ blocks' = <<>>
  /\ pc' = "cl_loop"
  /\ UNCHANGED <<poolVars, fcVars, mainVars>>
  /\ UNCHANGED <<args, inX, inMask, outY, X_unrolled, device_W, device_W_unrolled,
                 device_X_unrolled, device_Y_unrolled, device_Y, garbage, warps, stores, Y_direct>>

\* lines 290-295
CL_Reroll ==
  /\ pc = "cl_loop"
  /\ ~(n < args.N)
  /\ device_Y' = rerollOutput(args.M, args.N, H_out, W_out, device_Y_unrolled, Alloc(OutLen))
  /\ heap' = AcquireAll(heap, <<ConvLayerAllocs[6]>>)
  /\ pc' = "cl_copyback"
  /\ UNCHANGED <<poolVars, fcVars, mainButHeap>>
  /\ UNCHANGED <<args, inX, inMask, outY, X_unrolled, device_W, device_W_unrolled,
                 device_X_unrolled, device_Y_unrolled, n, blocks, garbage, warps, stores, Y_direct>>

\* line 298
CL_CopyBack ==
  /\ pc = "cl_copyback"
  /\ outY' = Memcpy(outY, device_Y, OutLen)
  /\ pc' = "cl_free"
  /\ UNCHANGED <<poolVars, fcVars, mainVars>>
  /\ UNCHANGED <<args, inX, inMask, X_unrolled, device_W, device_W_unrolled,
                 device_X_unrolled, device_Y_unrolled, device_Y, n, blocks, garbage, warps, stores,
                 Y_direct>>

\* lines 301-306
CL_Free ==
  /\ pc = "cl_free"
  /\ X_unrolled' = Freed
  /\ device_X_unrolled' = Freed
  /\ device_W_unrolled' = Freed
  /\ device_Y_unrolled' = Freed
  /\ device_W' = Freed
  /\ device_Y' = Freed
  /\ stores' = <<>>
  /\ heap' \in ReleaseAll({heap}, ConvLayerFrees)
  /\ pc' = "cl_return"
  /\ UNCHANGED <<poolVars, fcVars, mainButHeap>>
  /\ UNCHANGED <<args, inX, inMask, outY, n, blocks, garbage, warps, Y_direct>>

\* The reference convolution on the same operands, into a calloc'ed output
\* (lines 836-837).
RunDirect ==
  /\ pc = "cl_return"
  /\ Y_direct' = conv_forward_valid(inX, Dims4(args.N, args.H, args.W, args.C),
                                    inMask, Dims4(args.K, args.K, args.C, args.M),
                                    Zeros(OutLen), args.ydims)
  /\ pc' = "cl_checked"
  /\ UNCHANGED <<poolVars, fcVars, mainVars>>
  /\ UNCHANGED <<args, inX, inMask, outY, X_unrolled, device_W, device_W_unrolled,
                 device_X_unrolled, device_Y_unrolled, device_Y, n, blocks, garbage, warps, stores>>

\* The state of the fully_forward runs and of main while they are not the subject.
FcIdle ==
  /\ fcX = Freed /\ fcW1 = Freed /\ fcW2 = Freed /\ fcDims = Freed /\ fcOut = Freed

HostIdle ==
  /\ loadData_ret = 0 /\ data_read = FALSE
  /\ host_x = Freed /\ host_y = Freed
  /\ conv1 = Freed /\ conv2 = Freed /\ fc1 = Freed /\ fc2 = Freed

TensorsIdle ==
  /\ conv2Output = Freed /\ pool2Output = Freed
  /\ deviceInputPool2 = Freed /\ deviceOutputPool2 = Freed
  /\ host_e = Freed

ResultsIdle == ref = Freed /\ num_correct = 0 /\ out_ref = Freed

FilesIdle == testdata = Freed /\ modelfile = Freed

\* everything of main but the global conv1dims
MainIdleButConv1dims ==
  /\ FLAGS_batch_size = 0 /\ rdims = Freed
  /\ conv2dims = Freed /\ fc1dims = Freed /\ fc2dims = Freed
  /\ FilesIdle /\ HostIdle
  /\ cdims = Freed /\ ddims = Freed /\ ddims2 = Freed /\ edims = Freed /\ fdims = Freed
  /\ TensorsIdle /\ host_f = Freed
  /\ ResultsIdle /\ out = Freed /\ trace = <<>>

MainIdle == MainIdleButConv1dims /\ conv1dims = Freed

\* The state of the pooling stage while it is not the subject.
PoolIdle ==
  /\ xdims = Freed /\ adims = Freed /\ bdims = Freed
  /\ conv1Output = Freed /\ host_b = Freed
  /\ deviceInputPool1 = Freed /\ deviceOutputPool1 = Freed
  /\ deviceIndims = Freed /\ deviceOutdims = Freed
  /\ poolBlocks = {} /\ pool_ref = Freed

(***************************************************************************)
(* The operands convLayer_forward is run on.                               *)
(***************************************************************************)
ConvShape(N0, M0, C0, H0, W0, K0) ==
  [N |-> N0, M |-> M0, C |-> C0, H |-> H0, W |-> W0, K |-> K0,
   ydims |-> Dims4(N0, H0 - K0 + 1, W0 - K0 + 1, M0)]

ConvShapes ==
  { ConvShape(2, 2, 1, 3, 3, 2),      \* two samples
    ConvShape(1, 3, 2, 4, 3, 3),      \* H # W, contraction length 18: two phases
    ConvShape(1, 15, 15, 3, 5, 1),    \* rows, columns, contraction length 15
    ConvShape(1, 15, 31, 5, 3, 1),    \* contraction length 31: a partial second phase
    ConvShape(2, 1, 1, 1, 17, 1) }    \* 17 columns: two blocks

InputX(seed, len) == [i \in 0..(len - 1) |-> ((i * (seed + 2) + seed + (i \div 3)) % 5) - 2]

InputW(seed, len) == [i \in 0..(len - 1) |-> ((i * 3 + 2 * seed + (i \div 5)) % 4) - 1]

GarbageValues == {0, 7}

ConvInit ==
  /\ pc = "cl_entry"
  /\ heap = EmptyHeap
  /\ args \in ConvShapes
  /\ \E seed \in Seeds :
       /\ inX = InputX(seed, args.N * args.H * args.W * args.C)
       /\ inMask = InputW(seed, args.K * args.K * args.C * args.M)
  /\ garbage \in GarbageValues
  /\ warps = <<>> /\ stores = <<>>
  /\ outY = Alloc(args.N * (args.H - args.K + 1) * (args.W - args.K + 1) * args.M)
  /\ X_unrolled = Freed
  /\ device_W = Freed
  /\ device_W_unrolled = Freed
  /\ device_X_unrolled = Freed
  /\ device_Y_unrolled = Freed
  /\ device_Y = Freed
  /\ n = 0
  /\ blocks = <<>>
  /\ Y_direct = Freed
  /\ PoolIdle /\ FcIdle /\ MainIdle

ConvNext ==
  \/ CL_Entry
  \/ CL_UnrollFilters
  \/ CL_Alloc
  \/ CL_Unroll
  \/ CL_MemcpyX
  \/ CL_Launch
  \/ \E b \in DOMAIN blocks : MM_Load(b)
  \/ \E b \in DOMAIN blocks : MM_Compute(b)
  \/ \E b \in DOMAIN blocks : MM_Store(b)
  \/ CL_Sync
  \/ CL_Reroll
  \/ CL_CopyBack
  \/ CL_Free
  \/ RunDirect

SpecConv == ConvInit /\ [][ConvNext]_vars

(***************************************************************************)
(* Claims about convLayer_forward and matrixMultiplyShared (SpecConv).     *)
(***************************************************************************)
Max0(v) == IF v > 0 THEN v ELSE 0

\* sum over p, q in 0..K-1 and c in 0..C-1 of X[n0,h+p,w+q,c] * W[p,q,c,m]
ContractSum(n0, h, w, m) ==
  SumFn([j \in 0..(args.K * args.K * args.C - 1) |->
           LET p == j \div (args.K * args.C)
               q == (j \div args.C) % args.K
               c == j % args.C
           IN inX[((n0 * args.H + (h + p)) * args.W + (w + q)) * args.C + c]
              * inMask[((p * args.K + q) * args.C + c) * args.M + m]],
        0, args.K * args.K * args.C - 1)

Returned == pc \in {"cl_free", "cl_return", "cl_checked"}

\* C1: once convLayer_forward has copied its result back, every output element
\* Y[n,h,w,m], n < N, h < H-K+1, w < W-K+1, m < M, at row-major offset
\* ((n*H_out + h)*W_out + w)*M + m, holds max(0, sum of X[n,h+p,w+q,c]*W[p,q,c,m]).
C1_ConvLayerComputesClampedConvolution ==
  Returned =>
    \A n0 \in 0..(args.N - 1), h \in 0..(H_out - 1), w \in 0..(W_out - 1),
       m \in 0..(args.M - 1) :
         outY[((n0 * H_out + h) * W_out + w) * args.M + m] = Max0(ContractSum(n0, h, w, m))

C1_Witness ==
  /\ pc = "cl_return"
  /\ args.N > 1 /\ args.K > 1
  /\ \E h \in 0..(H_out - 1), w \in 0..(W_out - 1), m \in 0..(args.M - 1) :
        ContractSum(1, h, w, m) < 0
  /\ \E h \in 0..(H_out - 1), w \in 0..(W_out - 1), m \in 0..(args.M - 1) :
        ContractSum(1, h, w, m) > 0 /\ outY[((H_out + h) * W_out + w) * args.M + m] > 0

\* C2 as stated: the direct-form convolution on a zeroed output and
\* convLayer_forward produce equal outputs, element for element.
C2_DirectEqualsUnrolled ==
  pc = "cl_checked" => \A i \in DOMAIN outY : outY[i] = Y_direct[i]

\* C2 as amended: convLayer_forward's output equals, element for element, the
\* output of conv_forward_valid on a zeroed output followed by relu4.
C2_UnrolledEqualsReluOfDirect ==
  pc = "cl_checked" =>
    /\ DOMAIN outY = DOMAIN Y_direct
    /\ \A i \in DOMAIN outY : outY[i] = relu4(Y_direct, args.ydims)[i]

C2_Witness ==
  /\ pc = "cl_checked"
  /\ args.C > 1 /\ args.K > 1
  /\ \E i \in DOMAIN Y_direct : Y_direct[i] < 0 /\ outY[i] = 0
  /\ \E i \in DOMAIN Y_direct : Y_direct[i] > 0

\* the naive triple-loop product, element (row, col)
NaiveProduct(A, B, row, col, numAColumns, numBColumns) ==
  SumFn([k \in 0..(numAColumns - 1) |-> A[row * numAColumns + k] * B[k * numBColumns + col]],
        0, numAColumns - 1)

\* C3: every worker mapped to an in-range output element (CRow < numCRows,
\* CCol < numCColumns) leaves the phase loop with Cval equal to the naive product
\* sum over k of A[CRow,k]*B[k,CCol], and the element it stores in C is that value
\* clamped at zero.
C3_TiledProductMatchesNaive ==
  pc = "cl_sync" =>
    \A b \in DOMAIN blocks : \A ty \in Tile, tx \in Tile :
      LET CRow == b[2] * TILE_WIDTH + ty
          CCol == b[1] * TILE_WIDTH + tx
          naive == NaiveProduct(device_W_unrolled, device_X_unrolled, CRow, CCol,
                                Launch.numAColumns, Launch.numBColumns)
      IN (CRow < Launch.numCRows /\ CCol < Launch.numCColumns) =>
           /\ blocks[b].bpc \in {"store", "done"} => blocks[b].Cval[ty][tx] = naive
           /\ blocks[b].bpc = "done" =>
                device_Y_unrolled[Launch.Cbase + CRow * Launch.numCColumns + CCol]
                  = Max0(naive)

\* a block of a launch whose row count, column count and contraction length are
\* each one less than a multiple of TILE_WIDTH has stored its results, shared
\* memory started with non-zero contents, and the last phase was a partial one
C3_Witness ==
  /\ pc = "cl_sync"
  /\ garbage # 0
  /\ Launch.numCRows % TILE_WIDTH = TILE_WIDTH - 1
  /\ Launch.numCColumns % TILE_WIDTH = TILE_WIDTH - 1
  /\ Launch.numAColumns % TILE_WIDTH = TILE_WIDTH - 1
  /\ NumPhases(Launch.numAColumns) > 1
  /\ \E b \in DOMAIN blocks :
       /\ blocks[b].bpc = "done"
       /\ \E ty \in Tile, tx \in Tile :
            /\ ty < Launch.numCRows /\ tx < Launch.numCColumns
            /\ blocks[b].Cval[ty][tx] < 0
            /\ device_Y_unrolled[Launch.Cbase + ty * Launch.numCColumns + tx] = 0

(***************************************************************************)
(* average_pool_kernel<<<(N, M, Z), (TILE_WIDTH, TILE_WIDTH)>>>.  Thread i *)
(* of the launch, counted block after block, performs one guarded store.   *)
(***************************************************************************)
ThreadsPerBlock == TILE_WIDTH * TILE_WIDTH

\* int Z = ((bdims[2]-1)/TILE_WIDTH+1)*((bdims[1]-1)/TILE_WIDTH+1)
PoolGridZ(yd) == ((yd[2] - 1) \div TILE_WIDTH + 1) * ((yd[1] - 1) \div TILE_WIDTH + 1)

average_pool_kernelWrites(X, xd, yd, f, gridM, gridZ, nthreads) ==
  [i \in 1..nthreads |->
     LET blk == (i - 1) \div ThreadsPerBlock
         ty  == ((i - 1) % ThreadsPerBlock) \div TILE_WIDTH
         tx  == (i - 1) % TILE_WIDTH
         n0  == blk \div (gridM * gridZ)         \* blockIdx.x
         m   == (blk \div gridZ) % gridM         \* blockIdx.y
         z   == blk % gridZ                      \* blockIdx.z
         h   == (z \div ((yd[2] - 1) \div TILE_WIDTH + 1)) * TILE_WIDTH + ty
         w   == (z % ((yd[1] - 1) \div TILE_WIDTH + 1)) * TILE_WIDTH + tx
         acc == SumFn([j \in 0..(f * f - 1) |->
                         LET p == j \div f
                             q == j % f
                             xoffset == n0 * xd[1] * xd[2] * xd[3]
                                        + (f * h + p) * xd[2] * xd[3]
                                        + (f * w + q) * xd[3] + m
                         IN X[xoffset] \div (f * f)],
                      0, f * f - 1)
     IN [ok  |-> w < yd[2] /\ h < yd[1],
         at  |-> ((n0 * yd[1] + h) * yd[2] + w) * yd[3] + m,
         val |-> IF w < yd[2] /\ h < yd[1] THEN acc ELSE 0]]   \* acc exists inside the guard only

\* The whole launch, run to completion (cudaDeviceSynchronize).
average_pool_kernel(X, Y, xd, yd, f, gridN, gridM, gridZ) ==
  ApplyWrites(Y, average_pool_kernelWrites(X, xd, yd, f, gridM, gridZ,
                                           gridN * gridM * gridZ * ThreadsPerBlock),
              1, gridN * gridM * gridZ * ThreadsPerBlock)

(***************************************************************************)
(* average_pool (sequential reference): Y[yoffset] += X[xoffset] / (f*f)   *)
(* over the loop nest i, m, w, h, p, q.                                    *)
(***************************************************************************)
average_poolWrites(X, xd, f, Y, yd) ==
  [k \in 1..(yd[0] * yd[3] * yd[2] * yd[1]) |->
     LET i == (k - 1) \div (yd[3] * yd[2] * yd[1])
         m == ((k - 1) \div (yd[2] * yd[1])) % yd[3]
         w == ((k - 1) \div yd[1]) % yd[2]
         h == (k - 1) % yd[1]
         yoffset == ((i * yd[1] + h) * yd[2] + w) * yd[3] + m
     IN [ok |-> TRUE, at |-> yoffset,
         val |-> Y[yoffset]
                 + SumFn([j \in 0..(f * f - 1) |->
                            LET p == j \div f
                                q == j % f
                                xoffset == i * xd[1] * xd[2] * xd[3]
                                           + (f * h + p) * xd[2] * xd[3]
                                           + (f * w + q) * xd[3] + m
                            IN X[xoffset] \div (f * f)],
                         0, f * f - 1)]]

average_pool(X, xd, f, Y, yd) ==
  ApplyWrites(Y, average_poolWrites(X, xd, f, Y, yd), 1, yd[0] * yd[3] * yd[2] * yd[1])

(***************************************************************************)
(* The data flow of forward_operation: the buffer each stage is handed.    *)
(* A stage logs, at its first statement, its name, the buffer it reads and *)
(* the buffer it writes.                                                   *)
(***************************************************************************)
\* line 493: convLayer_forward(.., x, conv1, conv1Output, ..)
Conv1Source == "x"

\* line 497: cudaMemcpy(deviceInputPool1, conv1Output, ..)
Pool1Source == "conv1Output"

\* mutant: conv2 is handed the buffer conv1 wrote
Conv2Source_Conv1Output == "conv1Output"

\* line 527: convLayer_forward(.., b, conv2, conv2Output, ..)
Conv2Source == "b"

\* line 531: cudaMemcpy(deviceInputPool2, conv2Output, ..)
Pool2Source == "conv2Output"

\* line 594: fully_forward(pool2Output, ddims2, ..): pool2Output, seen as rows x columns
FlattenSource == "pool2Output"

FC1Source == "pool2Output as ddims2"

\* line 597: fully_forward(e, edims, ..)
FC2Source == "e"

\* line 600: argmax(f, fdims, out)
ArgmaxSource == "f"

Buffer(name) ==
  CASE name = "x" -> host_x
    [] name = "conv1Output" -> conv1Output
    [] name = "b" -> host_b
    [] name = "conv2Output" -> conv2Output
    [] name = "pool2Output" -> pool2Output
    [] name = "pool2Output as ddims2" -> fcX
    [] name = "e" -> host_e
    [] name = "f" -> host_f
    [] name = "out" -> out

Stage(name, src, dst) == [stage |-> name, reads |-> src, writes |-> dst]

(***************************************************************************)
(* The pool-1 stage of forward_operation (lines 495-522), step by step.    *)
(***************************************************************************)
Prod4(d) == d[0] * d[1] * d[2] * d[3]

\* lines 508-512: gridDimPool1(N, M, Z); M is the channel count of the stage
PoolGridN == adims[0]
PoolGridM == conv1dims[3]
PoolGridZ1 == PoolGridZ(bdims)

\* lines 495 and 501; lines 521-522
Pool1Allocs == << <<"deviceInputPool1", "cudaMalloc">>, <<"deviceOutputPool1", "cudaMalloc">> >>

Pool1Frees == << <<"deviceInputPool1", "cudaFree">>, <<"deviceOutputPool1", "cudaFree">> >>

\* lines 495-501
P1_Alloc ==
  /\ pc = "p1_alloc"
  /\ trace' = Append(trace, Stage("Pool1", Pool1Source, "b"))
  /\ deviceInputPool1' = Memcpy(Alloc(Prod4(adims) * xdims[3]), Buffer(Pool1Source),
                                Prod4(adims) * xdims[3])
  /\ deviceOutputPool1' = Alloc(Prod4(bdims) * xdims[3])
  /\ heap' = AcquireAll(heap, <<Pool1Allocs[1], Pool1Allocs[2]>>)
  /\ pc' = "p1_dims"
  /\ UNCHANGED <<convVars, fcVars, flagVars, hostVars, shapeVars, tensorVars, resultVars>>
  /\ UNCHANGED <<xdims, adims, bdims, conv1Output, host_b, deviceIndims, deviceOutdims,
                 poolBlocks, pool_ref>>

\* lines 504-505
P1_CopyDims ==
  /\ pc = "p1_dims"
  /\ deviceIndims' = adims
  /\ deviceOutdims' = bdims
  /\ pc' = "p1_launch"
  /\ UNCHANGED <<convVars, fcVars, mainVars>>
  /\ UNCHANGED <<xdims, adims, bdims, conv1Output, host_b, deviceInputPool1,
                 deviceOutputPool1, poolBlocks, pool_ref>>

\* lines 508-515
P1_Launch ==
  /\ pc = "p1_launch"
  /\ poolBlocks' = 0..(PoolGridN * PoolGridM * PoolGridZ1 - 1)
  /\ pc' = "p1_sync"
  /\ UNCHANGED <<convVars, fcVars, mainVars>>
  /\ UNCHANGED <<xdims, adims, bdims, conv1Output, host_b, deviceInputPool1,
                 deviceOutputPool1, deviceIndims, deviceOutdims, pool_ref>>

\* lines 384-406: one block of the launch runs
P1_Block(blk) ==
  /\ pc = "p1_sync"
  /\ blk \in poolBlocks
  /\ deviceOutputPool1' =
       ApplyWrites(deviceOutputPool1,
                   average_pool_kernelWrites(deviceInputPool1, deviceIndims, deviceOutdims,
                                             pool_size, PoolGridM, PoolGridZ1,
                                             (blk + 1) * ThreadsPerBlock),
                   blk * ThreadsPerBlock + 1, (blk + 1) * ThreadsPerBlock)
  /\ poolBlocks' = poolBlocks \ {blk}
  /\ UNCHANGED <<convVars, fcVars, mainVars>>
  /\ UNCHANGED <<pc, xdims, adims, bdims, conv1Output, host_b, deviceInputPool1,
                 deviceIndims, deviceOutdims, pool_ref>>

\* lines 516-518
P1_CopyBack ==
  /\ pc = "p1_sync"
  /\ poolBlocks = {}
  /\ host_b' = Memcpy(host_b, deviceOutputPool1, Prod4(bdims))
  /\ pc' = "p1_free"
  /\ UNCHANGED <<convVars, fcVars, mainVars>>
  /\ UNCHANGED <<xdims, adims, bdims, conv1Output, deviceInputPool1, deviceOutputPool1,
                 deviceIndims, deviceOutdims, poolBlocks, pool_ref>>

\* lines 521-522
P1_Free ==
  /\ pc = "p1_free"
  /\ deviceInputPool1' = Freed
  /\ deviceOutputPool1' = Freed
  /\ heap' \in ReleaseAll({heap}, Pool1Frees)
  /\ pc' = "p1_return"
  /\ UNCHANGED <<convVars, fcVars, mainButHeap>>
  /\ UNCHANGED <<xdims, adims, bdims, conv1Output, host_b, deviceIndims, deviceOutdims,
                 poolBlocks, pool_ref>>

\* The sequential average_pool on the same input, into a calloc'ed output
\* (lines 845-846).
RunSequentialPool ==
  /\ pc = "p1_return"
  /\ pool_ref' = average_pool(conv1Output, adims, pool_size, Zeros(Prod4(bdims)), bdims)
  /\ pc' = "p1_checked"
  /\ UNCHANGED <<convVars, fcVars, mainVars>>
  /\ UNCHANGED <<xdims, adims, bdims, conv1Output, host_b, deviceInputPool1,
                 deviceOutputPool1, deviceIndims, deviceOutdims, poolBlocks>>

\* The state of convLayer_forward while it is not the subject.
ConvIdle ==
  /\ args = Freed /\ inX = Freed /\ inMask = Freed /\ outY = Freed
  /\ X_unrolled = Freed /\ device_W = Freed /\ device_W_unrolled = Freed
  /\ device_X_unrolled = Freed /\ device_Y_unrolled = Freed /\ device_Y = Freed
  /\ n = 0 /\ blocks = <<>> /\ garbage = 0 /\ warps = <<>> /\ stores = <<>> /\ Y_direct = Freed

\* mutant: the pooled extents are rounded up
PoolDims_RoundedUp(d, f) == Dims4(d[0], Ceil(d[1], f), Ceil(d[2], f), d[3])

\* {adims[0], adims[1] / pool_size, adims[2] / pool_size, adims[3]}
PoolDims(d, f) == Dims4(d[0], d[1] \div f, d[2] \div f, d[3])

\* The pooled shapes the stage is run on: <<N, H_out, W_out, channels>>.
PoolShapes ==
  { <<2, 2, 2, 2>>, <<1, 3, 2, 2>>, <<1, 2, 3, 1>>,
    <<1, 17, 17, 1>>,                 \* both extents larger than TILE_WIDTH
    <<1, 17, 1, 1>>, <<1, 1, 17, 1>>, \* one extent larger than TILE_WIDTH
    <<1, 17, 33, 1>> }

\* Pool inputs are multiples of pool_size * pool_size: the quotients are exact.
InputPool(seed, len) ==
  [i \in 0..(len - 1) |-> pool_size * pool_size * (((i * (seed + 3) + seed + (i \div 5)) % 7) - 2)]

\* rows and columns of the input beyond pool_size times the output extent
PoolBorders == {0, 1}

PoolInit ==
  /\ pc = "p1_alloc"
  /\ heap = EmptyHeap
  /\ ConvIdle /\ FcIdle /\ MainIdleButConv1dims
  /\ \E sh \in PoolShapes, border \in PoolBorders, seed \in Seeds :
       /\ conv1dims = Dims4(5, 5, 1, sh[4])
       /\ adims = Dims4(sh[1], pool_size * sh[2] + border, pool_size * sh[3] + border, sh[4])
       /\ bdims = PoolDims(adims, pool_size)
       /\ xdims = Dims4(sh[1], pool_size * sh[2] + border + 4,
                        pool_size * sh[3] + border + 4, 1)
       /\ conv1Output = InputPool(seed, Prod4(adims))
       /\ host_b = Zeros(Prod4(bdims))
  /\ deviceInputPool1 = Freed /\ deviceOutputPool1 = Freed
  /\ deviceIndims = Freed /\ deviceOutdims = Freed
  /\ poolBlocks = {} /\ pool_ref = Freed

PoolNext ==
  \/ P1_Alloc
  \/ P1_CopyDims
  \/ P1_Launch
  \/ \E blk \in poolBlocks : P1_Block(blk)
  \/ P1_CopyBack
  \/ P1_Free
  \/ RunSequentialPool

SpecPool == PoolInit /\ [][PoolNext]_vars

\* the sum of the f x f input window of output cell (n0, h, w, c)
WindowSum(n0, h, w, c) ==
  SumFn([j \in 0..(pool_size * pool_size - 1) |->
           conv1Output[((n0 * adims[1] + (pool_size * h + (j \div pool_size))) * adims[2]
                        + (pool_size * w + (j % pool_size))) * adims[3] + c]],
        0, pool_size * pool_size - 1)

PoolOffset(n0, h, w, c) == ((n0 * bdims[1] + h) * bdims[2] + w) * bdims[3] + c

\* C4 as stated: for every batch size, channel count and output extent
\* H_out x W_out the launch with grid (N, M, Z) writes every output cell
\* Y[n,h,w,c], the value written is the mean of the f x f input window, and the
\* output is that of the sequential average_pool on a zeroed output.
C4_PoolWritesEveryCellWithMean ==
  pc \in {"p1_free", "p1_return", "p1_checked"} =>
    /\ \A n0 \in 0..(bdims[0] - 1), h \in 0..(bdims[1] - 1), w \in 0..(bdims[2] - 1),
          c \in 0..(bdims[3] - 1) :
            /\ host_b[PoolOffset(n0, h, w, c)] # Poison
            /\ pool_size * pool_size * host_b[PoolOffset(n0, h, w, c)] = WindowSum(n0, h, w, c)
    /\ pc = "p1_checked" => host_b = pool_ref

(***************************************************************************)
(* fully_forward.  The definition of the CUDA program (lines 408-420)      *)
(* stores (sum < 0.0f) ? 0.0f : sum; the definition of the sequential      *)
(* reference (lines 800-811) stores sum.                                   *)
(***************************************************************************)
\* sum += X[i * xdims[1] + k] * W[k * wdims[1] + j] for k < xdims[1]
DenseSum(X, xd, W, wd, i, j) ==
  SumFn([k \in 0..(xd[1] - 1) |-> X[i * xd[1] + k] * W[k * wd[1] + j]], 0, xd[1] - 1)

fully_forwardWrites(X, xd, W, wd) ==
  [t \in 1..(xd[0] * wd[1]) |->
     LET i == (t - 1) \div wd[1]
         j == (t - 1) % wd[1]
     IN [ok |-> TRUE, at |-> i * wd[1] + j, val |-> Clamp(DenseSum(X, xd, W, wd, i, j))]]

fully_forward(X, xd, W, wd, Y) ==
  ApplyWrites(Y, fully_forwardWrites(X, xd, W, wd), 1, xd[0] * wd[1])

fully_forward_referenceWrites(X, xd, W, wd) ==
  [t \in 1..(xd[0] * wd[1]) |->
     LET i == (t - 1) \div wd[1]
         j == (t - 1) % wd[1]
     IN [ok |-> TRUE, at |-> i * wd[1] + j, val |-> DenseSum(X, xd, W, wd, i, j)]]

fully_forward_reference(X, xd, W, wd, Y) ==
  ApplyWrites(Y, fully_forward_referenceWrites(X, xd, W, wd), 1, xd[0] * wd[1])

(***************************************************************************)
(* argmax (lines 423-436 and, identically, 814-828).                       *)
(***************************************************************************)
\* mutant: a later element that only equals the maximum replaces it
Exceeds_OrEquals(elem, max) == elem >= max

\* if (elem > max)
Exceeds(elem, max) == elem > max

\* for j in range(0, xdims[1]): the loop carries <<max_idx, max>>
RECURSIVE argmaxLoop(_, _, _, _, _, _)
argmaxLoop(X, xd, i, j, max_idx, max) ==
  IF j = xd[1] THEN max_idx
  ELSE LET elem == X[(i * xd[1]) + j]
       IN IF Exceeds(elem, max)
          THEN argmaxLoop(X, xd, i, j + 1, j, elem)
          ELSE argmaxLoop(X, xd, i, j + 1, max_idx, max)

argmax(X, xd, Y) ==
  [i \in DOMAIN Y |-> IF i < xd[0] THEN argmaxLoop(X, xd, i, 0, 0, X[i * xd[1]]) ELSE Y[i]]

(***************************************************************************)
(* fully_forward run, under both definitions, on W1, W2 and W1 + W2.       *)
(***************************************************************************)
FcWeights(wt) ==
  CASE wt = "W1" -> fcW1
    [] wt = "W2" -> fcW2
    [] OTHER -> [i \in DOMAIN fcW1 |-> fcW1[i] + fcW2[i]]

FcKeys == {"cuda", "reference"} \X {"W1", "W2", "W1+W2"}

FC_Run(key) ==
  /\ pc = "fc_run"
  /\ key \notin DOMAIN fcOut
  /\ fcOut' = (key :> (IF key[1] = "cuda"
                       THEN fully_forward(fcX, fcDims.xd, FcWeights(key[2]), fcDims.wd,
                                          Zeros(fcDims.xd[0] * fcDims.wd[1]))
                       ELSE fully_forward_reference(fcX, fcDims.xd, FcWeights(key[2]),
                                                    fcDims.wd,
                                                    Zeros(fcDims.xd[0] * fcDims.wd[1]))))
                @@ fcOut
  /\ UNCHANGED <<pc, convVars, poolVars, mainVars, fcX, fcW1, fcW2, fcDims>>

FC_Done ==
  /\ pc = "fc_run"
  /\ DOMAIN fcOut = FcKeys
  /\ pc' = "fc_done"
  /\ UNCHANGED <<convVars, poolVars, mainVars, fcVars>>

\* <<rows, K, J>>
FcShapes == { <<1, 1, 1>>, <<2, 2, 1>>, <<1, 2, 2>>, <<2, 3, 2>> }

FcInit ==
  /\ pc = "fc_run"
  /\ heap = EmptyHeap
  /\ ConvIdle /\ PoolIdle /\ MainIdle
  /\ \E sh \in FcShapes, sx \in Seeds, s1 \in Seeds, s2 \in Seeds :
       /\ fcDims = [xd |-> Dims2(sh[1], sh[2]), wd |-> Dims2(sh[2], sh[3])]
       /\ fcX = InputX(sx, sh[1] * sh[2])
       /\ fcW1 = InputW(s1, sh[2] * sh[3])
       /\ fcW2 = InputW(s2 + 1, sh[2] * sh[3])
  /\ fcOut = Freed

FcNext ==
  \/ \E key \in FcKeys : FC_Run(key)
  \/ FC_Done

SpecFC == FcInit /\ [][FcNext]_vars

\* C6 as stated: fully_forward, the definition used by the CUDA pipeline as well
\* as the one of the sequential reference, is linear in the weights:
\* fully_forward(X, W1+W2) = fully_forward(X, W1) + fully_forward(X, W2) elementwise.
C6_FullyForwardLinear ==
  pc = "fc_done" =>
    \A def \in {"cuda", "reference"} : \A i \in DOMAIN fcOut[<<def, "W1">>] :
      fcOut[<<def, "W1+W2">>][i] = fcOut[<<def, "W1">>][i] + fcOut[<<def, "W2">>][i]

(***************************************************************************)
(* argmax run on a score matrix.                                           *)
(***************************************************************************)
MaxScore == 1

Scores == (0 - 1)..MaxScore

\* <<rows, C>>
ArgmaxShapes == { <<1, 1>>, <<1, 3>>, <<2, 2>>, <<2, 3>> }

AM_Run ==
  /\ pc = "am_start"
  /\ out' = argmax(host_f, fdims, out)
  /\ pc' = "am_done"
  /\ UNCHANGED <<convVars, poolVars, fcVars>>
  /\ UNCHANGED <<globalVars, hostVars, shapeVars, tensorVars, ref, num_correct, out_ref,
                 trace>>

ArgmaxInit ==
  /\ pc = "am_start"
  /\ heap = EmptyHeap
  /\ ConvIdle /\ PoolIdle /\ FcIdle
  /\ FLAGS_batch_size = 0 /\ rdims = Freed
  /\ conv1dims = Freed /\ conv2dims = Freed /\ fc1dims = Freed /\ fc2dims = Freed
  /\ FilesIdle /\ HostIdle
  /\ cdims = Freed /\ ddims = Freed /\ ddims2 = Freed /\ edims = Freed
  /\ TensorsIdle /\ ResultsIdle /\ trace = <<>>
  /\ \E sh \in ArgmaxShapes :
       /\ fdims = Dims2(sh[1], sh[2])
       /\ host_f \in [0..(sh[1] * sh[2] - 1) -> Scores]
       /\ out = Zeros(sh[1])

ArgmaxNext == AM_Run

SpecArgmax == ArgmaxInit /\ [][ArgmaxNext]_vars

\* C8: for every score matrix X (rows x C, C >= 1) argmax returns for each row i
\* the smallest index j in 0..C-1 such that X[i,j] is the maximum of row i: a
\* valid column index, no element of the row larger, every earlier element smaller.
C8_ArgmaxFirstMaximum ==
  pc = "am_done" =>
    \A i \in 0..(fdims[0] - 1) :
      /\ out[i] \in 0..(fdims[1] - 1)
      /\ \A j \in 0..(fdims[1] - 1) : host_f[i * fdims[1] + j] <= host_f[i * fdims[1] + out[i]]
      /\ \A j \in 0..(out[i] - 1) : host_f[i * fdims[1] + j] < host_f[i * fdims[1] + out[i]]

\* the maximum of the second row is attained at columns 1 and 2, not at column 0
C8_Witness ==
  /\ pc = "am_done"
  /\ fdims[0] = 2 /\ fdims[1] = 3
  /\ host_f[4] = host_f[5] /\ host_f[3] < host_f[4]
  /\ out[1] = 1

(***************************************************************************)
(* The shapes forward_operation derives (lines 443-474).                   *)
(***************************************************************************)
NUM_ROWS == 28

NUM_COLS == 28

NUM_CHANNELS == 1

NUM_DIGITS == 10

\* mutant: a convolution that keeps the spatial extent of its input
ConvDims_Same(xd, wd) == Dims4(xd[0], xd[1], xd[2], wd[3])

\* {xdims[0], (xdims[1] - conv1dims[0] + 1), (xdims[2] - conv1dims[1] + 1), conv1dims[3]}
ConvDims(xd, wd) == Dims4(xd[0], xd[1] - wd[0] + 1, xd[2] - wd[1] + 1, wd[3])

\* {ddims[0], ddims[1] * ddims[2] * ddims[3]}
FlatDims(d) == Dims2(d[0], d[1] * d[2] * d[3])

\* {ddims[0], fc1dims[1]}
DenseDims(d, wd) == Dims2(d[0], wd[1])

poolBufVars == <<conv1Output, host_b, deviceInputPool1, deviceOutputPool1, deviceIndims,
                 deviceOutdims, poolBlocks, pool_ref>>

\* lines 444-445
SH_adims ==
  /\ pc = "fo_adims"
  /\ adims' = ConvDims(xdims, conv1dims)
  /\ pc' = "fo_bdims"
  /\ UNCHANGED <<convVars, fcVars, mainVars, poolBufVars, xdims, bdims>>

\* lines 450-452
SH_bdims ==
  /\ pc = "fo_bdims"
  /\ bdims' = PoolDims(adims, pool_size)
  /\ pc' = "fo_cdims"
  /\ UNCHANGED <<convVars, fcVars, mainVars, poolBufVars, xdims, adims>>

\* lines 456-457
SH_cdims ==
  /\ pc = "fo_cdims"
  /\ cdims' = ConvDims(bdims, conv2dims)
  /\ pc' = "fo_ddims"
  /\ UNCHANGED <<convVars, poolVars, fcVars, globalVars, hostVars, tensorVars, resultVars,
                 trace, ddims, ddims2, edims, fdims>>

\* lines 462-463
SH_ddims ==
  /\ pc = "fo_ddims"
  /\ ddims' = PoolDims(cdims, pool_size)
  /\ pc' = "fo_ddims2"
  /\ UNCHANGED <<convVars, poolVars, fcVars, globalVars, hostVars, tensorVars, resultVars,
                 trace, cdims, ddims2, edims, fdims>>

\* line 468
SH_ddims2 ==
  /\ pc = "fo_ddims2"
  /\ ddims2' = FlatDims(ddims)
  /\ pc' = "fo_edims"
  /\ UNCHANGED <<convVars, poolVars, fcVars, globalVars, hostVars, tensorVars, resultVars,
                 trace, cdims, ddims, edims, fdims>>

\* line 469
SH_edims ==
  /\ pc = "fo_edims"
  /\ edims' = DenseDims(ddims, fc1dims)
  /\ pc' = "fo_fdims"
  /\ UNCHANGED <<convVars, poolVars, fcVars, globalVars, hostVars, tensorVars, resultVars,
                 trace, cdims, ddims, ddims2, fdims>>

\* line 473
SH_fdims ==
  /\ pc = "fo_fdims"
  /\ fdims' = DenseDims(edims, fc2dims)
  /\ pc' = "fo_alloc"
  /\ UNCHANGED <<convVars, poolVars, fcVars, globalVars, hostVars, tensorVars, resultVars,
                 trace, cdims, ddims, ddims2, edims>>

MaxBatch == 16

\* the batch sizes main knows by file name (lines 631-635)
default_batch_sizes == {2, 10, 100, 10000}

BatchSizes == (1..MaxBatch) \cup default_batch_sizes

\* The globals as main leaves them (lines 28-35, 647-648), at the entry of
\* forward_operation.
ShapeInit ==
  /\ pc = "fo_adims"
  /\ heap = EmptyHeap
  /\ FLAGS_batch_size \in BatchSizes
  /\ xdims = Dims4(FLAGS_batch_size, NUM_ROWS, NUM_COLS, NUM_CHANNELS)
  /\ rdims = Dims2(FLAGS_batch_size, NUM_DIGITS)
  /\ conv1dims = Dims4(5, 5, 1, 32)
  /\ conv2dims = Dims4(5, 5, 32, 64)
  /\ fc1dims = Dims2(1024, 128)
  /\ fc2dims = Dims2(128, 10)
  /\ adims = Freed /\ bdims = Freed
  /\ cdims = Freed /\ ddims = Freed /\ ddims2 = Freed /\ edims = Freed /\ fdims = Freed
  /\ conv1Output = Freed /\ host_b = Freed
  /\ deviceInputPool1 = Freed /\ deviceOutputPool1 = Freed
  /\ deviceIndims = Freed /\ deviceOutdims = Freed
  /\ poolBlocks = {} /\ pool_ref = Freed
  /\ ConvIdle /\ FcIdle /\ FilesIdle /\ HostIdle /\ TensorsIdle /\ ResultsIdle
  /\ host_f = Freed /\ out = Freed /\ trace = <<>>

ShapeNext ==
  \/ SH_adims
  \/ SH_bdims
  \/ SH_cdims
  \/ SH_ddims
  \/ SH_ddims2
  \/ SH_edims
  \/ SH_fdims

SpecShape == ShapeInit /\ [][ShapeNext]_vars

\* C9: for every batch size N >= 1, with filter 5x5, pool factor 2 and input
\* 28x28x1, the shapes forward_operation derives are conv1 N x 24 x 24 x 32,
\* pool1 N x 12 x 12 x 32, conv2 N x 8 x 8 x 64, pool2 N x 4 x 4 x 64, flatten
\* N x 1024, fc1 N x 128, fc2 N x 10; the flattened column count is fc1's row
\* count and fc1's column count is fc2's row count.
C9_DerivedShapes ==
  /\ pc \notin {"fo_adims"} => adims = Dims4(FLAGS_batch_size, 24, 24, 32)
  /\ pc \notin {"fo_adims", "fo_bdims"} => bdims = Dims4(FLAGS_batch_size, 12, 12, 32)
  /\ pc \notin {"fo_adims", "fo_bdims", "fo_cdims"} =>
       cdims = Dims4(FLAGS_batch_size, 8, 8, 64)
  /\ pc \in {"fo_ddims2", "fo_edims", "fo_fdims", "fo_alloc"} =>
       ddims = Dims4(FLAGS_batch_size, 4, 4, 64)
  /\ pc \in {"fo_edims", "fo_fdims", "fo_alloc"} =>
       /\ ddims2 = Dims2(FLAGS_batch_size, 1024)
       /\ ddims2[1] = fc1dims[0]
  /\ pc \in {"fo_fdims", "fo_alloc"} =>
       /\ edims = Dims2(FLAGS_batch_size, 128)
       /\ edims[1] = fc2dims[0]
  /\ pc = "fo_alloc" => fdims = Dims2(FLAGS_batch_size, 10)

C9_Witness ==
  /\ pc = "fo_alloc"
  /\ FLAGS_batch_size = 10000
  /\ adims[0] = 10000 /\ fdims[0] = 10000

(***************************************************************************)
(* main and the CUDA forward_operation (lines 440-702).                    *)
(***************************************************************************)
poolDimVars == <<xdims, adims, bdims>>

convScratchVars == <<X_unrolled, device_W, device_W_unrolled, device_X_unrolled,
                     device_Y_unrolled, device_Y, n, blocks, garbage, warps, stores, Y_direct>>

\* allocate<float>(dims): new[] memory, holding whatever the heap held
HeapGarbage(g, len) == [i \in 0..(len - 1) |-> g * ((i % 3) - 1)]

\* lines 37-75 and line 653, where main discards the value loadData returns
M_LoadData ==
  /\ pc = "main_load"
  /\ IF testdata.dims0 # FLAGS_batch_size
     THEN /\ loadData_ret' = 1
          /\ data_read' = FALSE
          /\ UNCHANGED <<host_x, host_y>>
     ELSE /\ loadData_ret' = 0
          /\ data_read' = TRUE
          /\ host_x' = Memcpy(host_x, testdata.x, testdata.dims0 * xdims[1] * xdims[2] * xdims[3])
          /\ host_y' = Memcpy(host_y, testdata.y, testdata.dims0 * rdims[1])
  /\ pc' = "main_model"
  /\ UNCHANGED <<convVars, poolVars, fcVars, globalVars, shapeVars, tensorVars, resultVars,
                 trace, conv1, conv2, fc1, fc2>>

\* lines 77-106 and 660
M_LoadModel ==
  /\ pc = "main_model"
  /\ conv1' = Memcpy(conv1, modelfile.conv1, Prod4(conv1dims))
  /\ conv2' = Memcpy(conv2, modelfile.conv2, Prod4(conv2dims))
  /\ fc1' = Memcpy(fc1, modelfile.fc1, fc1dims[0] * fc1dims[1])
  /\ fc2' = Memcpy(fc2, modelfile.fc2, fc2dims[0] * fc2dims[1])
  /\ pc' = "main_out"
  /\ UNCHANGED <<convVars, poolVars, fcVars, globalVars, shapeVars, tensorVars, resultVars,
                 trace, loadData_ret, data_read, host_x, host_y>>

\* lines 663-668: out = zeros<int>(FLAGS_batch_size); forward_operation is entered
M_CallForward ==
  /\ pc = "main_out"
  /\ out' = Zeros(FLAGS_batch_size)
  /\ pc' = "fo_adims"
  /\ UNCHANGED <<convVars, poolVars, fcVars, globalVars, hostVars, shapeVars, tensorVars,
                 trace, ref, num_correct, out_ref>>

\* lines 446-474: the host tensors forward_operation uses (a, c and d are
\* allocated too but never passed to a stage)
\* the allocations of lines 446-474 and 486-488
ForwardAllocs ==
  << <<"a", "zeros">>, <<"conv1Output", "malloc">>, <<"b", "zeros">>, <<"c", "zeros">>,
     <<"conv2Output", "malloc">>, <<"d", "zeros">>, <<"pool2Output", "zeros">>,
     <<"e", "zeros">>, <<"f", "zeros">>,
     <<"deviceIndims", "cudaMalloc">>, <<"deviceMaskdims", "cudaMalloc">>,
     <<"deviceOutdims", "cudaMalloc">> >>

FO_AllocHost ==
  /\ pc = "fo_alloc"
  /\ conv1Output' = Alloc(Prod4(adims) * xdims[3])
  /\ host_b' = Zeros(Prod4(bdims))
  /\ conv2Output' = Alloc(Prod4(cdims))
  /\ pool2Output' = Zeros(Prod4(ddims))
  /\ host_e' = Zeros(edims[0] * edims[1])
  /\ host_f' = Zeros(fdims[0] * fdims[1])
  /\ heap' = AcquireAll(heap, ForwardAllocs)
  /\ pc' = "fo_conv1"
  /\ UNCHANGED <<convVars, fcVars, flagVars, hostVars, shapeVars, resultVars, trace,
                 poolDimVars, deviceInputPool1, deviceOutputPool1, deviceIndims,
                 deviceOutdims, poolBlocks, pool_ref, deviceInputPool2, deviceOutputPool2>>

\* line 493: the call of convLayer_forward; Y is conv1Output
FO_Conv1 ==
  /\ pc = "fo_conv1"
  /\ trace' = Append(trace, Stage("Conv1", Conv1Source, "conv1Output"))
  /\ args' = [N |-> xdims[0], M |-> conv1dims[3], C |-> conv1dims[2], H |-> xdims[1],
              W |-> xdims[2], K |-> conv1dims[0], ydims |-> adims]
  /\ inX' = Buffer(Conv1Source)
  /\ inMask' = conv1
  /\ outY' = conv1Output
  /\ pc' = "cl_entry"
  /\ UNCHANGED <<convScratchVars, poolVars, fcVars, globalVars, hostVars, shapeVars,
                 tensorVars, resultVars>>

\* line 493: convLayer_forward returns; conv1Output holds what was stored through Y
FO_Conv1Return ==
  /\ pc = "cl_return"
  /\ trace # <<>> /\ trace[Len(trace)].stage = "Conv1"
  /\ conv1Output' = outY
  /\ pc' = "p1_alloc"
  /\ UNCHANGED <<convVars, fcVars, mainVars, poolDimVars, host_b, deviceInputPool1,
                 deviceOutputPool1, deviceIndims, deviceOutdims, poolBlocks, pool_ref>>

\* line 527: the call of convLayer_forward; Y is conv2Output
FO_Conv2 ==
  /\ pc = "p1_return"
  /\ trace' = Append(trace, Stage("Conv2", Conv2Source, "conv2Output"))
  /\ args' = [N |-> xdims[0], M |-> conv2dims[3], C |-> conv2dims[2], H |-> bdims[1],
              W |-> bdims[2], K |-> conv2dims[0], ydims |-> cdims]
  /\ inX' = Buffer(Conv2Source)
  /\ inMask' = conv2
  /\ outY' = conv2Output
  /\ pc' = "cl_entry"
  /\ UNCHANGED <<convScratchVars, poolVars, fcVars, globalVars, hostVars, shapeVars,
                 tensorVars, resultVars>>

\* line 527: convLayer_forward returns
FO_Conv2Return ==
  /\ pc = "cl_return"
  /\ trace # <<>> /\ trace[Len(trace)].stage = "Conv2"
  /\ conv2Output' = outY
  /\ pc' = "p2_alloc"
  /\ UNCHANGED <<convVars, poolVars, fcVars, globalVars, hostVars, shapeVars, resultVars,
                 trace, pool2Output, deviceInputPool2, deviceOutputPool2, host_e, host_f>>

\* lines 529 and 569; lines 590-591
Pool2Allocs == << <<"deviceInputPool2", "cudaMalloc">>, <<"deviceOutputPool2", "cudaMalloc">> >>

Pool2Frees == << <<"deviceInputPool2", "cudaFree">>, <<"deviceOutputPool2", "cudaFree">> >>

\* lines 529-531 and 569
P2_Alloc ==
  /\ pc = "p2_alloc"
  /\ trace' = Append(trace, Stage("Pool2", Pool2Source, "pool2Output"))
  /\ deviceInputPool2' = Memcpy(Alloc(Prod4(cdims)), Buffer(Pool2Source), Prod4(cdims))
  /\ deviceOutputPool2' = Alloc(Prod4(ddims) * xdims[3])
  /\ heap' = AcquireAll(heap, <<Pool2Allocs[1], Pool2Allocs[2]>>)
  /\ pc' = "p2_dims"
  /\ UNCHANGED <<convVars, poolVars, fcVars, flagVars, hostVars, shapeVars, resultVars,
                 conv2Output, pool2Output, host_e, host_f>>

\* lines 572-573
P2_CopyDims ==
  /\ pc = "p2_dims"
  /\ deviceIndims' = cdims
  /\ deviceOutdims' = ddims
  /\ pc' = "p2_launch"
  /\ UNCHANGED <<convVars, fcVars, mainVars, poolDimVars, conv1Output, host_b,
                 deviceInputPool1, deviceOutputPool1, poolBlocks, pool_ref>>

\* lines 576-583: gridDimPool2(N, M, Z)
PoolGridN2 == cdims[0]
PoolGridM2 == conv2dims[3]
PoolGridZ2 == PoolGridZ(ddims)

P2_Launch ==
  /\ pc = "p2_launch"
  /\ poolBlocks' = 0..(PoolGridN2 * PoolGridM2 * PoolGridZ2 - 1)
  /\ pc' = "p2_sync"
  /\ UNCHANGED <<convVars, fcVars, mainVars, poolDimVars, conv1Output, host_b,
                 deviceInputPool1, deviceOutputPool1, deviceIndims, deviceOutdims, pool_ref>>

\* lines 384-406: one block of the launch runs
P2_Block(blk) ==
  /\ pc = "p2_sync"
  /\ blk \in poolBlocks
  /\ deviceOutputPool2' =
       ApplyWrites(deviceOutputPool2,
                   average_pool_kernelWrites(deviceInputPool2, deviceIndims, deviceOutdims,
                                             pool_size, PoolGridM2, PoolGridZ2,
                                             (blk + 1) * ThreadsPerBlock),
                   blk * ThreadsPerBlock + 1, (blk + 1) * ThreadsPerBlock)
  /\ poolBlocks' = poolBlocks \ {blk}
  /\ UNCHANGED <<pc, convVars, fcVars, globalVars, hostVars, shapeVars, resultVars, trace,
                 poolDimVars, conv1Output, host_b, deviceInputPool1, deviceOutputPool1,
                 deviceIndims, deviceOutdims, pool_ref, conv2Output, pool2Output,
                 deviceInputPool2, host_e, host_f>>

\* lines 584-587
P2_CopyBack ==
  /\ pc = "p2_sync"
  /\ poolBlocks = {}
  /\ pool2Output' = Memcpy(pool2Output, deviceOutputPool2, Prod4(ddims) * xdims[3])
  /\ pc' = "p2_free"
  /\ UNCHANGED <<convVars, poolVars, fcVars, globalVars, hostVars, shapeVars, resultVars,
                 trace, conv2Output, deviceInputPool2, deviceOutputPool2, host_e, host_f>>

\* lines 590-591
P2_Free ==
  /\ pc = "p2_free"
  /\ deviceInputPool2' = Freed
  /\ deviceOutputPool2' = Freed
  /\ heap' \in ReleaseAll({heap}, Pool2Frees)
  /\ pc' = "fo_flatten"
  /\ UNCHANGED <<convVars, poolVars, fcVars, flagVars, hostVars, shapeVars, resultVars,
                 trace, conv2Output, pool2Output, host_e, host_f>>

\* line 594, the arguments: X is pool2Output, read with the two extents of ddims2
FO_Flatten ==
  /\ pc = "fo_flatten"
  /\ trace' = Append(trace, Stage("Flatten", FlattenSource, "pool2Output as ddims2"))
  /\ fcX' = Buffer(FlattenSource)
  /\ pc' = "fo_fc1"
  /\ UNCHANGED <<convVars, poolVars, globalVars, hostVars, shapeVars, tensorVars,
                 resultVars, fcW1, fcW2, fcDims, fcOut>>

\* line 594
FO_FC1 ==
  /\ pc = "fo_fc1"
  /\ trace' = Append(trace, Stage("FC1", FC1Source, "e"))
  /\ host_e' = fully_forward(Buffer(FC1Source), ddims2, fc1, fc1dims, host_e)
  /\ pc' = "fo_fc2"
  /\ UNCHANGED <<convVars, poolVars, fcVars, globalVars, hostVars, shapeVars, resultVars,
                 conv2Output, pool2Output, deviceInputPool2, deviceOutputPool2, host_f>>

\* line 597
FO_FC2 ==
  /\ pc = "fo_fc2"
  /\ trace' = Append(trace, Stage("FC2", FC2Source, "f"))
  /\ host_f' = fully_forward(Buffer(FC2Source), edims, fc2, fc2dims, host_f)
  /\ pc' = "fo_argmax"
  /\ UNCHANGED <<convVars, poolVars, fcVars, globalVars, hostVars, shapeVars, resultVars,
                 conv2Output, pool2Output, deviceInputPool2, deviceOutputPool2, host_e>>

\* line 600
FO_Argmax ==
  /\ pc = "fo_argmax"
  /\ trace' = Append(trace, Stage("Argmax", ArgmaxSource, "out"))
  /\ out' = argmax(Buffer(ArgmaxSource), fdims, out)
  /\ pc' = "fo_free"
  /\ UNCHANGED <<convVars, poolVars, fcVars, globalVars, hostVars, shapeVars, tensorVars,
                 ref, num_correct, out_ref>>

\* the releases of lines 603-611 and 614-616
ForwardFrees ==
  << <<"a", "delete[]">>, <<"b", "delete[]">>, <<"c", "delete[]">>, <<"d", "delete[]">>,
     <<"e", "delete[]">>, <<"f", "delete[]">>, <<"pool2Output", "delete[]">>,
     <<"conv1Output", "delete[]">>, <<"conv2Output", "delete[]">>,
     <<"deviceIndims", "cudaFree">>, <<"deviceMaskdims", "cudaFree">>,
     <<"deviceOutdims", "cudaFree">> >>

\* lines 603-616; forward_operation returns
FO_Free ==
  /\ pc = "fo_free"
  /\ host_b' = Freed /\ host_e' = Freed /\ host_f' = Freed
  /\ pool2Output' = Freed /\ conv1Output' = Freed /\ conv2Output' = Freed
  /\ fcX' = Freed
  /\ deviceIndims' = Freed /\ deviceOutdims' = Freed
  /\ heap' \in ReleaseAll({heap}, ForwardFrees)
  /\ pc' = "main_ref"
  /\ UNCHANGED <<convVars, flagVars, hostVars, shapeVars, resultVars, trace,
                 poolDimVars, deviceInputPool1, deviceOutputPool1, poolBlocks, pool_ref,
                 deviceInputPool2, deviceOutputPool2, fcW1, fcW2, fcDims, fcOut>>

\* lines 678-679
M_Reference ==
  /\ pc = "main_ref"
  /\ ref' = argmax(host_y, rdims, Zeros(FLAGS_batch_size))
  /\ pc' = "main_correct"
  /\ UNCHANGED <<convVars, poolVars, fcVars, globalVars, hostVars, shapeVars, tensorVars,
                 trace, out, num_correct, out_ref>>

\* lines 682-690: the matches are counted and the ratio is printed
M_Correctness ==
  /\ pc = "main_correct"
  /\ num_correct' = Cardinality({i \in 0..(FLAGS_batch_size - 1) : out[i] = ref[i]})
  /\ pc' = "main_done"
  /\ UNCHANGED <<convVars, poolVars, fcVars, globalVars, hostVars, shapeVars, tensorVars,
                 trace, out, ref, out_ref>>

(***************************************************************************)
(* forward_operation of the sequential reference (lines 832-885).          *)
(***************************************************************************)
forward_operation_reference(x, c1, c2, f1, f2, o) ==
  LET ra  == ConvDims(xdims, conv1dims)
      a   == relu4(conv_forward_valid(x, xdims, c1, conv1dims, Zeros(Prod4(ra)), ra), ra)
      rb  == PoolDims(ra, pool_size)
      b   == average_pool(a, ra, pool_size, Zeros(Prod4(rb)), rb)
      rc  == ConvDims(rb, conv2dims)
      c   == relu4(conv_forward_valid(b, rb, c2, conv2dims, Zeros(Prod4(rc)), rc), rc)
      rd  == PoolDims(rc, pool_size)
      d   == average_pool(c, rc, pool_size, Zeros(Prod4(rd)), rd)
      rd2 == FlatDims(rd)
      re  == DenseDims(rd, fc1dims)
      e   == relu2(fully_forward_reference(d, rd2, f1, fc1dims, Zeros(re[0] * re[1])), re)
      rf  == DenseDims(re, fc2dims)
      f   == fully_forward_reference(e, re, f2, fc2dims, Zeros(rf[0] * rf[1]))
  IN argmax(f, rf, o)

\* The sequential forward_operation on the x and the weights main holds
\* (lines 899-904).
RunReferenceForward ==
  /\ pc = "main_done"
  /\ out_ref' = forward_operation_reference(host_x, conv1, conv2, fc1, fc2,
                                            Zeros(FLAGS_batch_size))
  /\ pc' = "main_checked"
  /\ UNCHANGED <<convVars, poolVars, fcVars, globalVars, hostVars, shapeVars, tensorVars,
                 trace, out, ref, num_correct>>

(***************************************************************************)
(* The runs of main that are explored: a network of the same architecture  *)
(* with small extents (7x7x1 input, 2x2 filters, 2 and 2 feature maps,     *)
(* 2 -> 3 -> 3 dense layers), a data file whose batch extent may differ    *)
(* from the batch size asked for.  The convolution weights are multiples   *)
(* of pool_size * pool_size, which keeps the quotients of both pools exact.*)
(***************************************************************************)
TestData(dims0, seed, xd, rd) ==
  [dims0 |-> dims0,
   x |-> InputX(seed, dims0 * xd[1] * xd[2] * xd[3]),
   y |-> [i \in 0..(dims0 * rd[1] - 1) |->
            IF i % rd[1] = ((i \div rd[1]) + seed) % rd[1] THEN 1 ELSE 0]]

ModelFile(seed) ==
  [conv1 |-> [i \in 0..7 |-> pool_size * pool_size * InputW(seed, 8)[i]],
   conv2 |-> [i \in 0..15 |-> pool_size * pool_size * InputW(seed + 1, 16)[i]],
   fc1 |-> InputW(seed, 6),
   fc2 |-> [i \in 0..8 |-> InputW(seed + 1, 9)[i] - 2 * (seed % 2)]]

MainInit ==
  /\ pc = "main_load"
  /\ heap = EmptyHeap
  /\ FLAGS_batch_size \in {1, 2}
  /\ xdims = Dims4(FLAGS_batch_size, 7, 7, 1)
  /\ rdims = Dims2(FLAGS_batch_size, 3)
  /\ conv1dims = Dims4(2, 2, 1, 2)
  /\ conv2dims = Dims4(2, 2, 2, 2)
  /\ fc1dims = Dims2(2, 3)
  /\ fc2dims = Dims2(3, 3)
  /\ \E dims0 \in {1, 2}, seed \in Seeds : testdata = TestData(dims0, seed, xdims, rdims)
  /\ \E seed \in Seeds : modelfile = ModelFile(seed)
  /\ garbage \in GarbageValues
  /\ warps = <<>> /\ stores = <<>>
  /\ loadData_ret = 0 /\ data_read = FALSE
  /\ host_x = HeapGarbage(garbage, Prod4(xdims))
  /\ host_y = HeapGarbage(garbage, rdims[0] * rdims[1])
  /\ conv1 = HeapGarbage(garbage, Prod4(conv1dims))
  /\ conv2 = HeapGarbage(garbage, Prod4(conv2dims))
  /\ fc1 = HeapGarbage(garbage, fc1dims[0] * fc1dims[1])
  /\ fc2 = HeapGarbage(garbage, fc2dims[0] * fc2dims[1])
  /\ args = Freed /\ inX = Freed /\ inMask = Freed /\ outY = Freed
  /\ X_unrolled = Freed /\ device_W = Freed /\ device_W_unrolled = Freed
  /\ device_X_unrolled = Freed /\ device_Y_unrolled = Freed /\ device_Y = Freed
  /\ n = 0 /\ blocks = <<>> /\ Y_direct = Freed
  /\ adims = Freed /\ bdims = Freed
  /\ cdims = Freed /\ ddims = Freed /\ ddims2 = Freed /\ edims = Freed /\ fdims = Freed
  /\ conv1Output = Freed /\ host_b = Freed
  /\ deviceInputPool1 = Freed /\ deviceOutputPool1 = Freed
  /\ deviceIndims = Freed /\ deviceOutdims = Freed
  /\ poolBlocks = {} /\ pool_ref = Freed
  /\ FcIdle /\ TensorsIdle /\ ResultsIdle
  /\ host_f = Freed /\ out = Freed /\ trace = <<>>

MainNext ==
  \/ M_LoadData
  \/ M_LoadModel
  \/ M_CallForward
  \/ SH_adims
  \/ SH_bdims
  \/ SH_cdims
  \/ SH_ddims
  \/ SH_ddims2
  \/ SH_edims
  \/ SH_fdims
  \/ FO_AllocHost
  \/ FO_Conv1
  \/ CL_Entry
  \/ CL_UnrollFilters
  \/ CL_Alloc
  \/ CL_Unroll
  \/ CL_MemcpyX
  \/ CL_Launch
  \/ \E b \in DOMAIN blocks : MM_Load(b)
  \/ \E b \in DOMAIN blocks : MM_Compute(b)
  \/ \E b \in DOMAIN blocks : MM_Store(b)
  \/ CL_Sync
  \/ CL_Reroll
  \/ CL_CopyBack
  \/ CL_Free
  \/ FO_Conv1Return
  \/ P1_Alloc
  \/ P1_CopyDims
  \/ P1_Launch
  \/ \E blk \in poolBlocks : P1_Block(blk)
  \/ P1_CopyBack
  \/ P1_Free
  \/ FO_Conv2
  \/ FO_Conv2Return
  \/ P2_Alloc
  \/ P2_CopyDims
  \/ P2_Launch
  \/ \E blk \in poolBlocks : P2_Block(blk)
  \/ P2_CopyBack
  \/ P2_Free
  \/ FO_Flatten
  \/ FO_FC1
  \/ FO_FC2
  \/ FO_Argmax
  \/ FO_Free
  \/ M_Reference
  \/ M_Correctness
  \/ RunReferenceForward

SpecMain == MainInit /\ [][MainNext]_vars

\* C5 as stated: for every input and every set of weights the labels of the
\* CUDA forward_operation are those of the sequential reference
\* forward_operation, the argmax over the unclamped fc2 scores.
C5_CudaLabelsEqualReferenceLabels ==
  pc = "main_checked" => out = out_ref

\* C7 as stated: when the batch extent of the data file differs from the batch
\* size, loadData reports failure without reading x or y, forward_operation is
\* never invoked and no correctness ratio is computed.
C7_MismatchAbortsRun ==
  loadData_ret = 1 =>
    /\ ~data_read
    /\ trace = <<>>
    /\ pc \notin {"main_done", "main_checked"}

StageOrder == <<"Conv1", "Pool1", "Conv2", "Pool2", "Flatten", "FC1", "FC2", "Argmax">>

\* the positions at which a stage other than the first is about to start
StageEntry == {"p1_alloc", "p1_return", "p2_alloc", "fo_flatten", "fo_fc1", "fo_fc2",
               "fo_argmax"}

AfterForward == {"fo_free", "main_ref", "main_correct", "main_done", "main_checked"}

CompletelyWritten(buf) == DOMAIN buf # {} /\ \A i \in DOMAIN buf : buf[i] # Poison

C11_UsedSlotsLoadedInSamePhase ==
  \A b \in DOMAIN blocks :
    blocks[b].bpc = "compute" =>
      \A ty \in Tile, tx \in Tile, dot \in Tile :
        DotInRange(dot, blocks[b].phase, Launch.numAColumns, Launch.numBRows) =>
          /\ blocks[b].AdsAt[ty][dot] = blocks[b].phase
          /\ blocks[b].BdsAt[dot][tx] = blocks[b].phase

(***************************************************************************)
(* One block of matrixMultiplyShared with its threads stepped separately.  *)
(* The 16 x 16 threads of the block are scheduled in groups of             *)
(* RowsPerStep rows of the tile; the threads of one group execute a        *)
(* statement together (they touch pairwise different slots), the groups    *)
(* are interleaved freely and meet at the two __syncthreads of a phase.    *)
(***************************************************************************)
RowsPerStep == 2

Groups == 0..(Ceil(TILE_WIDTH, RowsPerStep) - 1)

RowsOf(g) == {ty \in Tile : ty \div RowsPerStep = g}

\* the rows of group g taken from new, the others from old
RowsMerge(old, new, g) == [ty \in Tile |-> IF ty \in RowsOf(g) THEN new[ty] ELSE old[ty]]

TheBlock == <<0, 0>>

\* mutant: a thread leaves __syncthreads as soon as it has arrived
BarrierOpen_NoWait(ws, at) == \E g \in DOMAIN ws : ws[g].wpc = at

\* __syncthreads (lines 152 and 162): every thread of the block has arrived
BarrierOpen(ws, at) == \A g \in DOMAIN ws : ws[g].wpc = at

\* mutant: threads not mapped to a row of C skip the phase loop
PhasesOf_InRangeOnly(g, by, L) ==
  IF \E ty \in RowsOf(g) : by * TILE_WIDTH + ty < L.numCRows
  THEN NumPhases(L.numAColumns) ELSE 0

\* line 135: the number of phases the threads of group g execute
PhasesOf(g, by, L) == NumPhases(L.numAColumns)

\* the threads that wait at the first __syncthreads go on to the dot loop
Release1(ws) ==
  [g \in DOMAIN ws |->
     IF ws[g].wpc = "bar1" THEN [ws[g] EXCEPT !.wpc = "compute"] ELSE ws[g]]

\* the threads that wait at the second __syncthreads increment phase and test
\* the loop condition of line 135
Release2(ws) ==
  [g \in DOMAIN ws |->
     IF ws[g].wpc = "bar2"
     THEN [wpc |-> IF ws[g].phase + 1 < PhasesOf(g, TheBlock[2], Launch)
                   THEN "load" ELSE "store",
           phase |-> ws[g].phase + 1]
     ELSE ws[g]]

\* lines 138-150 by the threads of group g
W_Load(g) ==
  /\ pc = "mm_threads"
  /\ warps[g].wpc = "load"
  /\ blocks' = [blocks EXCEPT ![TheBlock] =
       [@ EXCEPT !.Ads = RowsMerge(@, LoadAds(@, device_W_unrolled, TheBlock[2], warps[g].phase,
                                              Launch.numAColumns, Launch.numCRows), g),
                 !.Bds = RowsMerge(@, LoadBds(@, device_X_unrolled, TheBlock[1], warps[g].phase,
                                              Launch.numBRows, Launch.numBColumns,
                                              Launch.numCColumns), g),
                 !.AdsAt = RowsMerge(@, StampAds(@, TheBlock[2], warps[g].phase,
                                                 Launch.numAColumns, Launch.numCRows), g),
                 !.BdsAt = RowsMerge(@, StampBds(@, TheBlock[1], warps[g].phase,
                                                 Launch.numBRows, Launch.numCColumns), g)]]
  /\ warps' = [warps EXCEPT ![g].wpc = "bar1"]
  /\ UNCHANGED <<poolVars, fcVars, mainVars>>
  /\ UNCHANGED <<pc, args, inX, inMask, outY, X_unrolled, device_W, device_W_unrolled,
                 device_X_unrolled, device_Y_unrolled, device_Y, n, garbage, stores, Y_direct>>

\* line 152: the barrier after the loads opens
W_Barrier1 ==
  /\ pc = "mm_threads"
  /\ BarrierOpen(warps, "bar1")
  /\ warps' = Release1(warps)
  /\ UNCHANGED <<poolVars, fcVars, mainVars>>
  /\ UNCHANGED <<pc, args, inX, inMask, outY, X_unrolled, device_W, device_W_unrolled,
                 device_X_unrolled, device_Y_unrolled, device_Y, n, blocks, garbage, stores,
                 Y_direct>>

\* lines 154-160 by the threads of group g
W_Compute(g) ==
  /\ pc = "mm_threads"
  /\ warps[g].wpc = "compute"
  /\ blocks' = [blocks EXCEPT ![TheBlock] =
       [@ EXCEPT !.Cval = RowsMerge(@, Accumulate(@, blocks[TheBlock].Ads,
                                                  blocks[TheBlock].Bds, warps[g].phase,
                                                  Launch.numAColumns, Launch.numBRows), g)]]
  /\ warps' = [warps EXCEPT ![g].wpc = "bar2"]
  /\ UNCHANGED <<poolVars, fcVars, mainVars>>
  /\ UNCHANGED <<pc, args, inX, inMask, outY, X_unrolled, device_W, device_W_unrolled,
                 device_X_unrolled, device_Y_unrolled, device_Y, n, garbage, stores, Y_direct>>

\* line 162 and the loop test of line 135: the barrier after the dot loop opens
W_Barrier2 ==
  /\ pc = "mm_threads"
  /\ BarrierOpen(warps, "bar2")
  /\ warps' = Release2(warps)
  /\ UNCHANGED <<poolVars, fcVars, mainVars>>
  /\ UNCHANGED <<pc, args, inX, inMask, outY, X_unrolled, device_W, device_W_unrolled,
                 device_X_unrolled, device_Y_unrolled, device_Y, n, blocks, garbage, stores,
                 Y_direct>>

\* the stores of lines 168-171 that the threads of group g make
GroupStores(g) ==
  LET ws == StoreCWrites(blocks[TheBlock].Cval, TheBlock[1], TheBlock[2], Launch.Cbase,
                         Launch.numCRows, Launch.numCColumns)
  IN [i \in DOMAIN ws |->
        [ok  |-> ws[i].ok /\ ((i - 1) \div TILE_WIDTH) \in RowsOf(g),
         at  |-> ws[i].at,
         val |-> ws[i].val]]

\* lines 168-171 by the threads of group g
W_Store(g) ==
  /\ pc = "mm_threads"
  /\ warps[g].wpc = "store"
  /\ device_Y_unrolled' = ApplyWrites(device_Y_unrolled, GroupStores(g), 1,
                                      TILE_WIDTH * TILE_WIDTH)
  /\ stores' = CountStores(stores, GroupStores(g))
  /\ warps' = [warps EXCEPT ![g].wpc = "done"]
  /\ UNCHANGED <<poolVars, fcVars, mainVars>>
  /\ UNCHANGED <<pc, args, inX, inMask, outY, X_unrolled, device_W, device_W_unrolled,
                 device_X_unrolled, device_Y, n, blocks, garbage, Y_direct>>

\* Launches of a single block, as convLayer_forward makes them for sample 0.
WarpShapes ==
  { ConvShape(1, 3, 2, 4, 3, 3),      \* contraction length 18: a partial second phase
    ConvShape(1, 15, 17, 3, 5, 1) }   \* 15 rows, 15 columns, contraction length 17

WarpInit ==
  /\ pc = "mm_threads"
  /\ heap = AcquireAll(EmptyHeap, SubSeq(ConvLayerAllocs, 1, 5))
  /\ args \in WarpShapes
  /\ inX = InputX(0, args.N * args.H * args.W * args.C)
  /\ inMask = InputW(0, args.K * args.K * args.C * args.M)
  /\ garbage \in GarbageValues \ {0}
  /\ outY = Alloc(OutLen)
  /\ device_W = Memcpy(Alloc(FilterLen), inMask, FilterLen)
  /\ device_W_unrolled = unrollFilters(args.C, args.M, args.K, device_W, Alloc(FilterLen))
  /\ X_unrolled = unroll(args.C, args.H, args.W, args.K, 0, inX, Alloc(W_unroll * H_unroll))
  /\ device_X_unrolled = Memcpy(Alloc(W_unroll * H_unroll), X_unrolled, W_unroll * H_unroll)
  /\ device_Y_unrolled = Alloc(OutLen)
  /\ device_Y = Freed
  /\ stores = Zeros(OutLen)
  /\ n = 0
  /\ blocks = [b \in {TheBlock} |-> [NewBlock(garbage) EXCEPT !.bpc = "threads"]]
  /\ warps = [g \in Groups |-> [wpc |-> "load", phase |-> 0]]
  /\ Y_direct = Freed
  /\ PoolIdle /\ FcIdle /\ MainIdle

WarpNext ==
  \/ \E g \in DOMAIN warps : W_Load(g)
  \/ W_Barrier1
  \/ \E g \in DOMAIN warps : W_Compute(g)
  \/ W_Barrier2
  \/ \E g \in DOMAIN warps : W_Store(g)

SpecWarps == WarpInit /\ [][WarpNext]_vars

\* C12: within one block, under every interleaving of its threads, no thread
\* reads a shared slot in phase p before every thread of the block has finished
\* its phase-p loads (the slots that phase p loads then hold phase-p data), and
\* no thread stores to a shared slot for phase p+1 while another thread of the
\* block is still reading phase-p data.
C12_BarriersSeparateLoadsFromReads ==
  pc = "mm_threads" =>
    \A g \in DOMAIN warps :
      /\ warps[g].wpc = "compute" =>
           /\ \A h \in DOMAIN warps :
                warps[h].phase = warps[g].phase /\ warps[h].wpc \in {"compute", "bar2"}
           /\ \A ty \in Tile, tx \in Tile :
                /\ LoadsAds(ty, tx, TheBlock[2], warps[g].phase, Launch.numAColumns,
                            Launch.numCRows)
                     => blocks[TheBlock].AdsAt[ty][tx] = warps[g].phase
                /\ LoadsBds(ty, tx, TheBlock[1], warps[g].phase, Launch.numBRows,
                            Launch.numCColumns)
                     => blocks[TheBlock].BdsAt[ty][tx] = warps[g].phase
      /\ warps[g].wpc = "load" =>
           \A h \in DOMAIN warps :
             warps[h].phase = warps[g].phase /\ warps[h].wpc \in {"load", "bar1"}

\* in the second phase one group is still in its dot loop while another has
\* finished it and waits at the second barrier
C12_Witness ==
  /\ pc = "mm_threads"
  /\ \E g \in DOMAIN warps, h \in DOMAIN warps :
       /\ warps[g].phase = 1 /\ warps[g].wpc = "compute"
       /\ warps[h].phase = 1 /\ warps[h].wpc = "bar2"

(***************************************************************************)
(* The stores of one matrixMultiplyShared launch, blocks interleaved.      *)
(***************************************************************************)
\* the element of device_Y_unrolled that thread (ty, tx) of block b is mapped to
ElementOf(b, ty, tx) ==
  Launch.Cbase + (b[2] * TILE_WIDTH + ty) * Launch.numCColumns + (b[1] * TILE_WIDTH + tx)

ThreadInRange(b, ty, tx) ==
  (b[2] * TILE_WIDTH + ty < Launch.numCRows) /\ (b[1] * TILE_WIDTH + tx < Launch.numCColumns)

\* C13: under every interleaving of the blocks of a launch each in-range element
\* of C is stored to exactly once, by the one thread mapped to it: never more
\* than once, exactly once as soon as the thread's block has stored and not
\* before; blocks work on their own tiles; and when every block has finished,
\* C holds the clamped product of A and B, whatever the order of the blocks.
C13_EachElementStoredOnce ==
  /\ \A i \in DOMAIN stores : stores[i] <= 1
  /\ pc = "cl_sync" =>
       /\ \A b \in DOMAIN blocks : \A ty \in Tile, tx \in Tile :
            ThreadInRange(b, ty, tx) =>
              stores[ElementOf(b, ty, tx)] = (IF blocks[b].bpc = "done" THEN 1 ELSE 0)
       /\ \A i \in DOMAIN stores :
            (i >= Launch.Cbase + Launch.numCRows * Launch.numCColumns) => stores[i] = 0
       /\ (\A b \in DOMAIN blocks : blocks[b].bpc = "done") =>
            \A row \in 0..(Launch.numCRows - 1), col \in 0..(Launch.numCColumns - 1) :
              device_Y_unrolled[Launch.Cbase + row * Launch.numCColumns + col]
                = Clamp(NaiveProduct(device_W_unrolled, device_X_unrolled, row, col,
                                     Launch.numAColumns, Launch.numBColumns))
  /\ (pc = "cl_loop" /\ stores # <<>>) =>
       \A i \in DOMAIN stores :
         stores[i] = (IF i < n * args.ydims[1] * args.ydims[2] * args.ydims[3] THEN 1 ELSE 0)

\* a launch of two blocks: the second block has stored its element, the first
\* has not stored yet
C13_Witness ==
  /\ pc = "cl_sync"
  /\ DOMAIN blocks = {<<0, 0>>, <<1, 0>>}
  /\ blocks[<<1, 0>>].bpc = "done"
  /\ blocks[<<0, 0>>].bpc # "done"
  /\ stores[Launch.Cbase + TILE_WIDTH] = 1
  /\ stores[Launch.Cbase] = 0

(***************************************************************************)
(* Termination of the kernel.  The threads of a resident block keep being  *)
(* issued: whenever some thread can execute its next statement, or a       *)
(* barrier can release the threads waiting at it, one of them eventually   *)
(* does.  ThreadIssued is the control-flow part of WarpNext (every step of *)
(* WarpNext is a ThreadIssued step that changes warps and it is enabled    *)
(* exactly when WarpNext is), so weak fairness of it expresses this.       *)
(***************************************************************************)
AfterStatement(at) ==
  CASE at = "load" -> "bar1"
    [] at = "compute" -> "bar2"
    [] at = "store" -> "done"

ThreadIssued ==
  /\ pc = "mm_threads"
  /\ \/ \E g \in DOMAIN warps :
          /\ warps[g].wpc \in {"load", "compute", "store"}
          /\ warps' = [warps EXCEPT ![g].wpc = AfterStatement(@)]
     \/ BarrierOpen(warps, "bar1") /\ warps' = Release1(warps)
     \/ BarrierOpen(warps, "bar2") /\ warps' = Release2(warps)

SpecWarpsFair == WarpInit /\ [][WarpNext]_vars /\ WF_warps(ThreadIssued)

\* every group has left the phase loop and stored
AllThreadsDone == pc = "mm_threads" /\ \A g \in DOMAIN warps : warps[g].wpc = "done"

\* a group's phase counter is at most the common number of phases and the
\* group is past the loop exactly when it has executed all of them
PhasesUniform ==
  pc = "mm_threads" =>
    \A g \in DOMAIN warps :
      /\ warps[g].phase <= NumPhases(Launch.numAColumns)
      /\ (warps[g].wpc \in {"store", "done"}) <=> (warps[g].phase = NumPhases(Launch.numAColumns))

WaitsAt(at) == pc = "mm_threads" /\ \E g \in DOMAIN warps : warps[g].wpc = at

AllPassed(at) == pc = "mm_threads" /\ \A g \in DOMAIN warps : warps[g].wpc \in at

\* C14: every thread of a block, mapped to an element of C or not, executes
\* the same number of phases (numAColumns-1)/TILE_WIDTH+1; a thread waiting
\* at either __syncthreads is released with all the others; every thread
\* eventually finishes the kernel.
C14_KernelTerminates ==
  /\ []PhasesUniform
  /\ WaitsAt("bar1") ~> AllPassed({"compute"})
  /\ WaitsAt("bar2") ~> AllPassed({"load", "store"})
  /\ <>AllThreadsDone

\* all groups are done after two phases although only the first two groups
\* hold a thread that is mapped to a row of C
C14_Witness ==
  /\ AllThreadsDone
  /\ NumPhases(Launch.numAColumns) = 2
  /\ \A g \in DOMAIN warps : warps[g].phase = 2
  /\ \E g \in DOMAIN warps : \A ty \in RowsOf(g) : ~(TheBlock[2] * TILE_WIDTH + ty < Launch.numCRows)

(***************************************************************************)
(* Pooling an input whose height or width is not a multiple of pool_size.  *)
(***************************************************************************)
\* every input position a thread of average_pool_kernel reads (line 399, under
\* the guard of line 395) is inside the extents xd of the input
PoolKernelReadsInside(xd, yd, f, gridN, gridM, gridZ) ==
  \A n0 \in 0..(gridN - 1), m \in 0..(gridM - 1), z \in 0..(gridZ - 1),
     ty \in Tile, tx \in Tile :
    LET h == (z \div ((yd[2] - 1) \div TILE_WIDTH + 1)) * TILE_WIDTH + ty
        w == (z % ((yd[1] - 1) \div TILE_WIDTH + 1)) * TILE_WIDTH + tx
    IN (w < yd[2] /\ h < yd[1]) =>
         \A p \in 0..(f - 1), q \in 0..(f - 1) :
           /\ f * h + p < xd[1]
           /\ f * w + q < xd[2]
           /\ n0 * xd[1] * xd[2] * xd[3] + (f * h + p) * xd[2] * xd[3]
                + (f * w + q) * xd[3] + m < Prod4(xd)

\* the same for the loop nest of the sequential average_pool (line 788)
PoolLoopReadsInside(xd, yd, f) ==
  \A i \in 0..(yd[0] - 1), m \in 0..(yd[3] - 1), w \in 0..(yd[2] - 1), h \in 0..(yd[1] - 1),
     p \in 0..(f - 1), q \in 0..(f - 1) :
    /\ f * h + p < xd[1]
    /\ f * w + q < xd[2]
    /\ i * xd[1] * xd[2] * xd[3] + (f * h + p) * xd[2] * xd[3] + (f * w + q) * xd[3] + m
         < Prod4(xd)

\* the extents of the part of the input that pool_size * (output extent) covers
CoveredDims(yd, f) == Dims4(yd[0], f * yd[1], f * yd[2], yd[3])

\* the input without its leftover border rows and columns
Covered(X, xd, cd) ==
  [k \in 0..(Prod4(cd) - 1) |->
     LET c0  == k % cd[3]
         col == (k \div cd[3]) % cd[2]
         row == (k \div (cd[3] * cd[2])) % cd[1]
         n0  == k \div (cd[3] * cd[2] * cd[1])
     IN X[((n0 * xd[1] + row) * xd[2] + col) * xd[3] + c0]]

\* C15: the pooled extent is floor(H/f) x floor(W/f); every input position the
\* pooling operator reads is inside the input's extents; and the output is
\* the operator's output on the input without its leftover border rows and
\* columns, so it does not depend on their values.
C15_LeftoverBorderIgnored ==
  /\ bdims[0] = adims[0] /\ bdims[3] = adims[3]
  /\ pool_size * bdims[1] <= adims[1] /\ adims[1] < pool_size * (bdims[1] + 1)
  /\ pool_size * bdims[2] <= adims[2] /\ adims[2] < pool_size * (bdims[2] + 1)
  /\ pc = "p1_sync" =>
       PoolKernelReadsInside(deviceIndims, deviceOutdims, pool_size,
                             PoolGridN, PoolGridM, PoolGridZ1)
  /\ pc = "p1_return" => PoolLoopReadsInside(adims, bdims, pool_size)
  /\ pc \in {"p1_free", "p1_return", "p1_checked"} =>
       host_b = Memcpy(Zeros(Prod4(bdims)),
                       average_pool_kernel(Covered(conv1Output, adims,
                                                   CoveredDims(bdims, pool_size)),
                                           Alloc(Prod4(bdims) * xdims[3]),
                                           CoveredDims(bdims, pool_size), bdims, pool_size,
                                           PoolGridN, PoolGridM, PoolGridZ1),
                       Prod4(bdims))
  /\ pc = "p1_checked" =>
       pool_ref = average_pool(Covered(conv1Output, adims, CoveredDims(bdims, pool_size)),
                               CoveredDims(bdims, pool_size), pool_size,
                               Zeros(Prod4(bdims)), bdims)

\* a 7 x 5 input pooled to 3 x 2 by both operators; the last row and the last
\* column of the input hold nonzero values
C15_Witness ==
  /\ pc = "p1_checked"
  /\ adims[1] = 7 /\ adims[2] = 5 /\ bdims[1] = 3 /\ bdims[2] = 2
  /\ \E k \in DOMAIN conv1Output :
       /\ (k \div (adims[3] * adims[2])) % adims[1] = adims[1] - 1
       /\ conv1Output[k] # 0
  /\ \E k \in DOMAIN conv1Output :
       /\ (k \div adims[3]) % adims[2] = adims[2] - 1
       /\ conv1Output[k] # 0

(***************************************************************************)
(* The lifetime of the buffers of convLayer_forward and forward_operation. *)
(***************************************************************************)
\* the positions of the host thread inside convLayer_forward
InConvLayer ==
  pc \in {"cl_entry", "cl_filters", "cl_alloc", "cl_loop", "cl_memcpy", "cl_launch", "cl_sync",
          "cl_copyback", "cl_free"}

\* the positions of the host thread after forward_operation has returned
AfterForwardOperation == pc \in {"main_ref", "main_correct", "main_done", "main_checked"}

\* the buffers the statements at the host thread's position read or write
UsedAt ==
  CASE pc = "cl_filters" -> {"device_W", "device_W_unrolled"}
    [] pc = "cl_loop" -> IF n < args.N THEN {"X_unrolled"} ELSE {"device_Y_unrolled"}
    [] pc = "cl_memcpy" -> {"X_unrolled", "device_X_unrolled"}
    [] pc \in {"cl_launch", "cl_sync"} ->
         {"device_W_unrolled", "device_X_unrolled", "device_Y_unrolled"}
    [] pc = "cl_copyback" -> {"device_Y"}
    [] pc = "fo_conv1" -> {"conv1Output"}
    [] pc = "p1_alloc" -> {"conv1Output"}
    [] pc \in {"p1_dims", "p2_dims"} -> {"deviceIndims", "deviceOutdims"}
    [] pc \in {"p1_launch", "p1_sync"} ->
         {"deviceInputPool1", "deviceOutputPool1", "deviceIndims", "deviceOutdims", "b"}
    [] pc = "p1_return" -> {"b", "conv2Output"}
    [] pc = "p2_alloc" -> {"conv2Output"}
    [] pc \in {"p2_launch", "p2_sync"} ->
         {"deviceInputPool2", "deviceOutputPool2", "deviceIndims", "deviceOutdims",
          "pool2Output"}
    [] pc \in {"fo_flatten", "fo_fc1"} -> {"pool2Output", "e"}
    [] pc = "fo_fc2" -> {"e", "f"}
    [] pc = "fo_argmax" -> {"f"}
    [] OTHER -> {}

\* the transient buffers of convLayer_forward, by name
ConvLayerBuffer(name) ==
  CASE name = "X_unrolled" -> X_unrolled
    [] name = "device_W_unrolled" -> device_W_unrolled
    [] name = "device_W" -> device_W
    [] name = "device_X_unrolled" -> device_X_unrolled
    [] name = "device_Y_unrolled" -> device_Y_unrolled
    [] name = "device_Y" -> device_Y

\* C16: every host and device buffer allocated during convLayer_forward and
\* forward_operation is released exactly once (by the deallocator of its
\* allocator, so that the release is defined) before the allocating function
\* returns, and no buffer is read or written after it has been released.
C16_BuffersReleasedExactlyOnce ==
  /\ \A b \in DOMAIN heap : heap[b].state \in {"none", "live", "released"}
  /\ ~InConvLayer => \A b \in ConvLayerBuffers : heap[b].state \in {"none", "released"}
  /\ AfterForwardOperation => \A b \in DOMAIN heap : heap[b].state = "released"
  /\ \A b \in UsedAt : heap[b].state = "live"
  /\ \A b \in ConvLayerBuffers : (heap[b].state = "live") <=> (ConvLayerBuffer(b) # Freed)

\* the same without the requirement that the release is defined
C16_ReleasedWhateverTheDeallocator ==
  /\ \A b \in DOMAIN heap : heap[b].state \in {"none", "live", "released", "undefined"}
  /\ ~InConvLayer => \A b \in ConvLayerBuffers : heap[b].state \in {"none", "released"}
  /\ AfterForwardOperation =>
       \A b \in DOMAIN heap : heap[b].state \in {"released", "undefined"}
  /\ \A b \in UsedAt : heap[b].state = "live"
  /\ \A b \in ConvLayerBuffers : (heap[b].state = "live") <=> (ConvLayerBuffer(b) # Freed)

(***************************************************************************)
(* The order of the kernels of convLayer_forward.                          *)
(***************************************************************************)
\* a matrixMultiplyShared launch has blocks that have not finished
KernelInFlight == blocks # <<>> /\ \E b \in DOMAIN blocks : blocks[b].bpc # "done"

\* what unroll writes for sample n0 (line 277)
UnrolledSample(n0) ==
  unroll(args.C, args.H, args.W, args.K, n0, inX, Alloc(W_unroll * H_unroll))

\* while the multiply kernel of sample n runs, the unrolled filters are
\* complete and both unrolled-input buffers hold sample n
OperandsOfSampleInPlace ==
  KernelInFlight =>
    /\ pc = "cl_sync" /\ n < args.N
    /\ device_W_unrolled = unrollFilters(args.C, args.M, args.K,
                                          Memcpy(Alloc(FilterLen), inMask, FilterLen),
                                          Alloc(FilterLen))
    /\ \A i \in DOMAIN device_W_unrolled : device_W_unrolled[i] # Poison
    /\ X_unrolled = UnrolledSample(n)
    /\ device_X_unrolled = X_unrolled

\* a step taken while a kernel runs leaves the kernel's operands alone
OperandsKeptWhileInFlight ==
  KernelInFlight =>
    /\ X_unrolled' = X_unrolled
    /\ device_X_unrolled' = device_X_unrolled
    /\ device_W_unrolled' = device_W_unrolled

\* the step that launches rerollOutput (line 294)
RerollStarts == pc = "cl_loop" /\ pc' = "cl_copyback"

AllSamplesMultiplied ==
  /\ n = args.N
  /\ ~KernelInFlight
  /\ \A i \in DOMAIN stores : stores[i] = 1

\* C17: the filter-unroll kernel has completed before the first multiply
\* kernel is launched; X_unrolled and device_X_unrolled hold sample n's
\* unrolled matrix as long as sample n's multiply kernel runs and are
\* overwritten only after it has finished; rerollOutput starts only after the
\* multiply kernels of all N samples have finished.
C17_KernelsOrdered ==
  /\ []OperandsOfSampleInPlace
  /\ [][OperandsKeptWhileInFlight]_vars
  /\ [][RerollStarts => AllSamplesMultiplied]_vars

\* the kernel of the second sample runs on a buffer that held the first
\* sample's matrix before
C17_Witness ==
  /\ pc = "cl_sync" /\ n = 1
  /\ \E b \in DOMAIN blocks : blocks[b].bpc = "compute"
  /\ X_unrolled # UnrolledSample(0)
  /\ device_X_unrolled = UnrolledSample(1)

(***************************************************************************)
(* Buffer lengths, element indices and copy sizes of the forward pass at   *)
(* the program's hyperparameters.  Lengths and offsets are int expressions *)
(* of the source: IntMul is the product as a 32-bit int holds it.  No      *)
(* buffer is materialised here: only its length is compared with the       *)
(* offsets computed for it.  An offset grows with the sample index, so the *)
(* statements are visited for the first and the last sample of the batch.  *)
(***************************************************************************)
INT_MAX == 32768 * 65535 + 32767

\* a * b in 32-bit two's complement, for 0 <= b < 32768
IntMul(a, b) ==
  LET al == a % 65536
      ah == a \div 65536
      lo == al * b
      hi == (ah * b + (lo \div 65536)) % 65536
  IN (IF hi >= 32768 THEN hi - 65536 ELSE hi) * 65536 + (lo % 65536)

\* f[1] * f[2] * ... as the source's left-to-right int expression computes it
RECURSIVE IntProdFrom(_, _, _)
IntProdFrom(acc, f, i) == IF i > Len(f) THEN acc ELSE IntProdFrom(IntMul(acc, f[i]), f, i + 1)

IntProd(f) == IntProdFrom(1, f, 1)

\* the product of the extents f is at most INT_MAX
RECURSIVE FitsFrom(_, _, _)
FitsFrom(acc, f, i) ==
  IF i > Len(f) THEN TRUE
  ELSE IF f[i] # 0 /\ acc > INT_MAX \div f[i] THEN FALSE
  ELSE FitsFrom(acc * f[i], f, i + 1)

Fits(f) == FitsFrom(1, f, 1)

RECURSIVE ProductFrom(_, _, _)
ProductFrom(acc, f, i) == IF i > Len(f) THEN acc ELSE ProductFrom(acc * f[i], f, i + 1)

\* a buffer of shape `shape` whose element count the source computes from `factors`
LengthIsProduct(factors, shape) ==
  Fits(shape) /\ Fits(factors) /\ IntProd(factors) = ProductFrom(1, shape, 1)

Extents4(d) == <<d[0], d[1], d[2], d[3]>>

\* the arguments of the two calls of convLayer_forward (lines 493 and 527),
\* with the extents of the buffers passed for X, Mask and Y
ConvCall1 ==
  [N |-> xdims[0], M |-> conv1dims[3], C |-> conv1dims[2], H |-> xdims[1], W |-> xdims[2],
   K |-> conv1dims[0], ydims |-> adims,
   X |-> Extents4(xdims), Mask |-> Extents4(conv1dims),
   Y |-> <<adims[0], adims[1], adims[2], adims[3], xdims[3]>>]

ConvCall2 ==
  [N |-> xdims[0], M |-> conv2dims[3], C |-> conv2dims[2], H |-> bdims[1], W |-> bdims[2],
   K |-> conv2dims[0], ydims |-> cdims,
   X |-> Extents4(bdims), Mask |-> Extents4(conv2dims),
   Y |-> Extents4(cdims)]

\* the locals of convLayer_forward (lines 248-251)
CallW_out(a) == a.W - a.K + 1
CallH_out(a) == a.H - a.K + 1
CallW_unroll(a) == a.C * a.K * a.K
CallH_unroll(a) == CallH_out(a) * CallW_out(a)

\* the element counts of the allocations of convLayer_forward with the shapes
\* of the buffers (lines 252, 256, 257, 268, 269, 290)
ConvLayerLengths(a) ==
  { [buf |-> "X_unrolled", factors |-> <<CallW_unroll(a), CallH_unroll(a)>>,
     shape |-> <<a.C, a.K, a.K, CallH_out(a), CallW_out(a)>>],
    [buf |-> "device_W_unrolled", factors |-> <<a.M, a.C, a.K, a.K>>, shape |-> a.Mask],
    [buf |-> "device_W", factors |-> <<a.M, a.C, a.K, a.K>>, shape |-> a.Mask],
    [buf |-> "device_X_unrolled", factors |-> <<CallW_unroll(a), CallH_unroll(a)>>,
     shape |-> <<a.C, a.K, a.K, CallH_out(a), CallW_out(a)>>],
    [buf |-> "device_Y_unrolled", factors |-> <<a.M, a.N, CallW_out(a), CallH_out(a)>>,
     shape |-> Extents4(a.ydims)],
    [buf |-> "device_Y", factors |-> <<a.M, a.N, CallW_out(a), CallH_out(a)>>,
     shape |-> Extents4(a.ydims)] }

\* the element counts of the allocations of forward_operation with the shapes
\* of the tensors (lines 447, 459, 495, 501, 529, 569)
ForwardLengths ==
  { [buf |-> "conv1Output",
     factors |-> <<adims[0], adims[1], adims[2], adims[3], xdims[3]>>, shape |-> Extents4(adims)],
    [buf |-> "conv2Output", factors |-> Extents4(cdims), shape |-> Extents4(cdims)],
    [buf |-> "deviceInputPool1",
     factors |-> <<adims[0], adims[1], adims[2], adims[3], xdims[3]>>, shape |-> Extents4(adims)],
    [buf |-> "deviceOutputPool1",
     factors |-> <<bdims[0], bdims[1], bdims[2], bdims[3], xdims[3]>>, shape |-> Extents4(bdims)],
    [buf |-> "deviceInputPool2", factors |-> Extents4(cdims), shape |-> Extents4(cdims)],
    [buf |-> "deviceOutputPool2",
     factors |-> <<ddims[0], ddims[1], ddims[2], ddims[3], xdims[3]>>, shape |-> Extents4(ddims)] }

AllLengths == ForwardLengths \cup ConvLayerLengths(ConvCall1) \cup ConvLayerLengths(ConvCall2)

\* the samples the statements are visited for
SamplesVisited(N) == {0, N - 1}

\* lines 215-244: the offsets unroll computes, for X of lenX and X_unroll of lenXu elements
unrollInside(a, ns, lenX, lenXu) ==
  \A n0 \in ns, c \in 0..(a.C - 1), p \in 0..(a.K - 1), q \in 0..(a.K - 1),
     h \in 0..(CallH_out(a) - 1), w \in 0..(CallW_out(a) - 1) :
    /\ (c * (a.K * a.K) + p * a.K + q) * CallH_unroll(a) + (h * CallW_out(a) + w) < lenXu
    /\ n0 * a.H * a.W * a.C + (h + p) * a.W * a.C + (w + q) * a.C + c < lenX

\* lines 175-192: unrollFilters<<<C, M>>>
unrollFiltersInside(a, lenW, lenWu) ==
  \A c \in 0..(a.C - 1), m \in 0..(a.M - 1) :
    (c < a.C /\ m < a.M) =>
      \A p \in 0..(a.K - 1), q \in 0..(a.K - 1) :
        /\ m * a.C * a.K * a.K + c * a.K * a.K + p * a.K + q < lenWu
        /\ p * a.K * a.C * a.M + q * a.C * a.M + c * a.M + m < lenW

\* lines 108-172: the launch of line 282 for sample n0; C is the pointer
\* &device_Y_unrolled[n0 * ydims[1] * ydims[2] * ydims[3]]
matrixMultiplySharedInside(a, ns, lenA, lenB, lenC) ==
  LET numAColumns == a.C * a.K * a.K
      numBRows    == CallW_unroll(a)
      numBColumns == CallH_unroll(a)
      numCRows    == a.M
      numCColumns == CallH_unroll(a)
  IN \A bx \in 0..(Ceil(CallH_unroll(a), TILE_WIDTH) - 1),
        by \in 0..(Ceil(a.M, TILE_WIDTH) - 1), ty \in Tile, tx \in Tile :
       LET CRow == by * TILE_WIDTH + ty
           CCol == bx * TILE_WIDTH + tx
       IN /\ \A phase \in 0..(NumPhases(numAColumns) - 1) :
               /\ LoadsAds(ty, tx, by, phase, numAColumns, numCRows) =>
                    CRow * numAColumns + tx + phase * TILE_WIDTH < lenA
               /\ LoadsBds(ty, tx, bx, phase, numBRows, numCColumns) =>
                    (ty + phase * TILE_WIDTH) * numBColumns + CCol < lenB
          /\ (CRow < numCRows /\ CCol < numCColumns) =>
               \A n0 \in ns :
                 n0 * a.ydims[1] * a.ydims[2] * a.ydims[3] + CRow * numCColumns + CCol < lenC

\* lines 195-212: rerollOutput<<<N, M>>>
rerollOutputInside(a, ns, lenYu, lenY) ==
  \A n0 \in ns, m \in 0..(a.M - 1) :
    (m < a.M /\ n0 < a.N) =>
      \A h \in 0..(CallH_out(a) - 1), w \in 0..(CallW_out(a) - 1) :
        /\ ((n0 * CallH_out(a) + h) * CallW_out(a) + w) * a.M + m < lenY
        /\ n0 * a.M * CallH_out(a) * CallW_out(a) + m * CallH_out(a) * CallW_out(a)
             + h * CallW_out(a) + w < lenYu

\* lines 384-406: average_pool_kernel<<<(N, M, Z), (TILE_WIDTH, TILE_WIDTH)>>>
average_pool_kernelInside(xd, yd, f, ns, gridM, gridZ, lenX, lenY) ==
  \A n0 \in ns, m \in 0..(gridM - 1), z \in 0..(gridZ - 1), ty \in Tile, tx \in Tile :
    LET h == (z \div ((yd[2] - 1) \div TILE_WIDTH + 1)) * TILE_WIDTH + ty
        w == (z % ((yd[1] - 1) \div TILE_WIDTH + 1)) * TILE_WIDTH + tx
    IN (w < yd[2] /\ h < yd[1]) =>
         /\ \A p \in 0..(f - 1), q \in 0..(f - 1) :
              n0 * xd[1] * xd[2] * xd[3] + (f * h + p) * xd[2] * xd[3]
                + (f * w + q) * xd[3] + m < lenX
         /\ ((n0 * yd[1] + h) * yd[2] + w) * yd[3] + m < lenY

\* every offset computed during the call a of convLayer_forward is inside
\* the buffer it addresses
ConvLayerIndicesInside(a) ==
  LET lenX  == ProductFrom(1, a.X, 1)
      lenW  == IntProd(<<a.M, a.C, a.K, a.K>>)
      lenXu == IntProd(<<CallW_unroll(a), CallH_unroll(a)>>)
      lenYu == IntProd(<<a.M, a.N, CallW_out(a), CallH_out(a)>>)
      ns    == SamplesVisited(a.N)
  IN /\ unrollFiltersInside(a, lenW, lenW)
     /\ unrollInside(a, ns, lenX, lenXu)
     /\ matrixMultiplySharedInside(a, ns, lenW, lenXu, lenYu)
     /\ rerollOutputInside(a, ns, lenYu, lenYu)

\* lines 508-515 and 575-583
PoolIndicesInside ==
  /\ average_pool_kernelInside(adims, bdims, pool_size, SamplesVisited(adims[0]),
                               conv1dims[3], PoolGridZ(bdims),
                               IntProd(<<adims[0], adims[1], adims[2], adims[3], xdims[3]>>),
                               IntProd(<<bdims[0], bdims[1], bdims[2], bdims[3], xdims[3]>>))
  /\ average_pool_kernelInside(cdims, ddims, pool_size, SamplesVisited(cdims[0]),
                               conv2dims[3], PoolGridZ(ddims),
                               IntProd(Extents4(cdims)),
                               IntProd(<<ddims[0], ddims[1], ddims[2], ddims[3], xdims[3]>>))

\* a copy of count elements into a buffer of lenDst from a buffer of lenSrc elements
CopyFits(count, lenDst, lenSrc) == count <= lenDst /\ count <= lenSrc

\* the copies of convLayer_forward (lines 262, 280, 298)
ConvLayerCopiesFit(a) ==
  /\ CopyFits(IntProd(<<a.M, a.C, a.K, a.K>>),
              IntProd(<<a.M, a.C, a.K, a.K>>), ProductFrom(1, a.Mask, 1))
  /\ CopyFits(IntProd(<<CallW_unroll(a), CallH_unroll(a)>>),
              IntProd(<<CallW_unroll(a), CallH_unroll(a)>>),
              IntProd(<<CallW_unroll(a), CallH_unroll(a)>>))
  /\ CopyFits(IntProd(<<a.M, a.N, CallW_out(a), CallH_out(a)>>),
              IntProd(a.Y), IntProd(<<a.M, a.N, CallW_out(a), CallH_out(a)>>))

\* the copies of forward_operation (lines 497, 504, 505, 517, 531, 572, 573, 587);
\* b and pool2Output are zeros<float>(bdims) and zeros<float>(ddims)
ForwardCopiesFit ==
  /\ CopyFits(IntProd(<<adims[0], adims[1], adims[2], adims[3], xdims[3]>>),
              IntProd(<<adims[0], adims[1], adims[2], adims[3], xdims[3]>>),
              IntProd(<<adims[0], adims[1], adims[2], adims[3], xdims[3]>>))
  /\ CopyFits(4, 4, Len(Extents4(adims))) /\ CopyFits(4, 4, Len(Extents4(bdims)))
  /\ CopyFits(IntProd(Extents4(bdims)), ProductFrom(1, Extents4(bdims), 1),
              IntProd(<<bdims[0], bdims[1], bdims[2], bdims[3], xdims[3]>>))
  /\ CopyFits(IntProd(Extents4(cdims)), IntProd(Extents4(cdims)), IntProd(Extents4(cdims)))
  /\ CopyFits(4, 4, Len(Extents4(cdims))) /\ CopyFits(4, 4, Len(Extents4(ddims)))
  /\ CopyFits(IntProd(<<ddims[0], ddims[1], ddims[2], ddims[3], xdims[3]>>),
              ProductFrom(1, Extents4(ddims), 1),
              IntProd(<<ddims[0], ddims[1], ddims[2], ddims[3], xdims[3]>>))

\* the batch sizes of the defaults, the small ones, and the smallest one for
\* which conv1's output has more than INT_MAX elements
SizeBatchSizes == BatchSizes \cup {INT_MAX \div (24 * 24 * 32) + 1}

SizesInit ==
  /\ pc = "fo_adims"
  /\ heap = EmptyHeap
  /\ FLAGS_batch_size \in SizeBatchSizes
  /\ xdims = Dims4(FLAGS_batch_size, NUM_ROWS, NUM_COLS, NUM_CHANNELS)
  /\ rdims = Dims2(FLAGS_batch_size, NUM_DIGITS)
  /\ conv1dims = Dims4(5, 5, 1, 32)
  /\ conv2dims = Dims4(5, 5, 32, 64)
  /\ fc1dims = Dims2(1024, 128)
  /\ fc2dims = Dims2(128, 10)
  /\ adims = Freed /\ bdims = Freed
  /\ cdims = Freed /\ ddims = Freed /\ ddims2 = Freed /\ edims = Freed /\ fdims = Freed
  /\ conv1Output = Freed /\ host_b = Freed
  /\ deviceInputPool1 = Freed /\ deviceOutputPool1 = Freed
  /\ deviceIndims = Freed /\ deviceOutdims = Freed
  /\ poolBlocks = {} /\ pool_ref = Freed
  /\ ConvIdle /\ FcIdle /\ FilesIdle /\ HostIdle /\ TensorsIdle /\ ResultsIdle
  /\ host_f = Freed /\ out = Freed /\ trace = <<>>

SpecSizes == SizesInit /\ [][ShapeNext]_vars

\* C18: for the program's hyperparameters and every batch size, every
\* buffer of the forward pass has as many elements as the product of the
\* extents of its shape, every offset computed by unroll, unrollFilters,
\* matrixMultiplyShared, rerollOutput and average_pool_kernel is inside the
\* buffer it addresses, and every copy of convLayer_forward and
\* forward_operation moves no more elements than its source and its
\* destination hold.
C18_LengthsIndicesCopies ==
  pc = "fo_alloc" =>
    /\ \A l \in AllLengths : LengthIsProduct(l.factors, l.shape)
    /\ ConvLayerCopiesFit(ConvCall1) /\ ConvLayerCopiesFit(ConvCall2) /\ ForwardCopiesFit
    /\ ConvLayerIndicesInside(ConvCall1)
    /\ PoolIndicesInside
    /\ ConvLayerIndicesInside(ConvCall2)

\* the same for the batch sizes whose tensors have at most INT_MAX elements
C18_UpToIntMaxElements ==
  (pc = "fo_alloc" /\ Fits(Extents4(adims))) => C18_LengthsIndicesCopies

====
